---- MODULE Spec2Model ----
(***************************************************************************)
(* The digest route of the Bluesky dashboard (GET /api/bluesky/digest):    *)
(* cache lookup, session check, paginated timeline collection with a       *)
(* recency cutoff, deduplication, topic filter with an external feed,      *)
(* engagement ranking, completion parsing, index mapping and the daily     *)
(* cache keyed by digest type and UTC date.                                *)
(*                                                                         *)
(* Conventions.  An optional JavaScript value (undefined / null / absent)  *)
(* is a sequence of length at most one: <<>> is the missing value, <<v>>   *)
(* is the value v.  Time is counted in ticks; TicksPerDay ticks make one   *)
(* UTC day and also the 24 hours of the cutoff and of the cache expiry.    *)
(* The engagement score is kept doubled so that 1.5 * replies stays an     *)
(* integer.                                                                *)
(***************************************************************************)
EXTENDS Integers, Sequences, FiniteSets, TLC

\* ------------------------------------------------------------------ bounds

TicksPerDay == 2    \* clock resolution: ticks per UTC day
MaxTime == 2        \* last tick the clock reaches
NumRequests == 2    \* digest requests of one behaviour
MaxNotable == 3     \* longest notablePosts list of a model response

\* ------------------------------------------------------- program constants

MAX_OLD_POSTS == 20         \* timeline: consecutive old posts that stop paging
MAX_OLD_POSTS_FEED == 10    \* external feed: the same threshold
PageLimit == 100            \* limit: 100 of getTimeline / getFeed
TimelineCap == 1000         \* allPosts.length > 1000
FeedCap == 500              \* allPosts.length > 500
TopN == 150                 \* slice(0, 150)

\* ------------------------------------------------------------ small helpers

None == <<>>
Some(v) == <<v>>
IsSome(o) == o # <<>>

Min(a, b) == IF a < b THEN a ELSE b

Range(s) == {s[i] : i \in 1..Len(s)}

Requests == 1..NumRequests
DigestTypes == {"general", "ai"}

\* new Date().toISOString().split("T")[0]: the UTC calendar date of a tick.
DateOf(t) == t \div TicksPerDay

\* ------------------------------------------------------------- normalizer

\* extractPost: text / createdAt default to the empty string, the three
\* counts default to 0 (?? 0).  A raw item carries its fields as optionals.
\* The quote taken from a nested record: only a record tagged
\* app.bsky.embed.record#viewRecord is a realized post; its author handle
\* is copied as it is (undefined when the author is missing) and a missing
\* text reads as "".
QuoteOf(record) ==
    IF IsSome(record) /\ record[1].type = "record#viewRecord"
    THEN Some([handle |-> record[1].handle,
               text |-> IF IsSome(record[1].text) THEN record[1].text[1] ELSE ""])
    ELSE None

\* An extraction that looks for the quoted record of a record-with-media
\* embed at the depth of a plain record embed.
ExtractQuotedShallow(embed) ==
    IF ~IsSome(embed) THEN None
    ELSE IF embed[1].type \in {"record#view", "recordWithMedia#view"}
    THEN QuoteOf(embed[1].record)
    ELSE None

\* Lines 538-573 of extractPost: the two ifs on embed.$type.  For
\* app.bsky.embed.record#view the nested record is embed.record, for
\* app.bsky.embed.recordWithMedia#view it is embed.record.record.
ExtractQuoted(embed) ==
    IF ~IsSome(embed) THEN None
    ELSE IF embed[1].type = "record#view" THEN QuoteOf(embed[1].record)
    ELSE IF embed[1].type = "recordWithMedia#view"
    THEN IF IsSome(embed[1].record) THEN QuoteOf(embed[1].record[1].record) ELSE None
    ELSE None

extractPost(item) ==
    [uri |-> item.uri,
     text |-> item.text,
     createdAt |-> item.createdAt,
     likeCount |-> IF IsSome(item.likeCount) THEN item.likeCount[1] ELSE 0,
     repostCount |-> IF IsSome(item.repostCount) THEN item.repostCount[1] ELSE 0,
     replyCount |-> IF IsSome(item.replyCount) THEN item.replyCount[1] ELSE 0,
     quotedPost |-> ExtractQuoted(item.embed)]

\* A comparison that also counts a post dated exactly at the cutoff as old.
IsOldPostInclusive(post, twentyFourHoursAgo) ==
    /\ IsSome(post.createdAt)
    /\ post.createdAt[1] <= twentyFourHoursAgo

\* postDate < twentyFourHoursAgo.  new Date("") is an Invalid Date, and
\* every comparison with it is false.
IsOldPost(post, twentyFourHoursAgo) ==
    /\ IsSome(post.createdAt)
    /\ post.createdAt[1] < twentyFourHoursAgo

\* A loop body in which a recent post is retained but leaves the counter.
ScanPostNoReset(acc, post, twentyFourHoursAgo) ==
    IF IsOldPost(post, twentyFourHoursAgo)
    THEN [oldPostCount |-> acc.oldPostCount + 1, allPosts |-> acc.allPosts]
    ELSE [oldPostCount |-> acc.oldPostCount, allPosts |-> Append(acc.allPosts, post)]

\* A loop body that resets the counter on a recent post without retaining
\* the post.
ScanPostDropsRecent(acc, post, twentyFourHoursAgo) ==
    IF IsOldPost(post, twentyFourHoursAgo)
    THEN [oldPostCount |-> acc.oldPostCount + 1, allPosts |-> acc.allPosts]
    ELSE [oldPostCount |-> 0, allPosts |-> acc.allPosts]

\* The body of the for loop over a page: an old post increments
\* oldPostCount, any other post resets it and is pushed to allPosts.  acc is
\* the pair [oldPostCount, allPosts].
ScanPost(acc, post, twentyFourHoursAgo) ==
    IF IsOldPost(post, twentyFourHoursAgo)
    THEN [oldPostCount |-> acc.oldPostCount + 1, allPosts |-> acc.allPosts]
    ELSE [oldPostCount |-> 0, allPosts |-> Append(acc.allPosts, post)]

\* The for loop over the items lo..hi of one page, in order: the first half
\* of the range, then the second from where the first left acc (the test on
\* first has TLC compute the first half before it enters the second).  acc
\* is carried over from the previous pages.
RECURSIVE ProcessItems(_, _, _, _, _)
ProcessItems(page, lo, hi, twentyFourHoursAgo, acc) ==
    IF lo > hi THEN acc
    ELSE IF lo = hi
    THEN ScanPost(acc, extractPost(page[lo]), twentyFourHoursAgo)
    ELSE LET mid == (lo + hi) \div 2
             first == ProcessItems(page, lo, mid, twentyFourHoursAgo, acc)
         IN IF first.oldPostCount >= 0
            THEN ProcessItems(page, mid + 1, hi, twentyFourHoursAgo, first)
            ELSE first

ProcessPage(page, twentyFourHoursAgo, acc) ==
    ProcessItems(page, 1, Len(page), twentyFourHoursAgo, acc)

\* A stop test whose cap is reached at the cap itself.
StopPagingCapInclusive(oldPostCount, cursor, retained, maxOld, cap) ==
    \/ oldPostCount >= maxOld
    \/ ~IsSome(cursor)
    \/ retained >= cap

\* A stop test without the consecutive-old threshold.
StopPagingNoThreshold(oldPostCount, cursor, retained, maxOld, cap) ==
    \/ ~IsSome(cursor)
    \/ retained > cap

\* A stop test without the hard cap.
StopPagingNoCap(oldPostCount, cursor, retained, maxOld, cap) ==
    \/ oldPostCount >= maxOld
    \/ ~IsSome(cursor)

\* A stop test whose cap allows a page more.
StopPagingCapPlusPage(oldPostCount, cursor, retained, maxOld, cap) ==
    \/ oldPostCount >= maxOld
    \/ ~IsSome(cursor)
    \/ retained > cap + PageLimit

\* if (oldPostCount >= MAX_OLD_POSTS || !cursor || allPosts.length > cap) break
StopPaging(oldPostCount, cursor, retained, maxOld, cap) ==
    \/ oldPostCount >= maxOld
    \/ ~IsSome(cursor)
    \/ retained > cap

\* ---------------------------------------------------------- deduplication

\* A filter that never records what it has seen.
DedupStepForgetful(acc, post) ==
    IF post.uri \in acc.seen THEN acc
    ELSE [seen |-> acc.seen, out |-> Append(acc.out, post)]

\* The callback of allPosts.filter with the Set seen: a post whose uri was
\* seen is dropped, any other is kept and its uri recorded.
DedupStep(acc, post) ==
    IF post.uri \in acc.seen THEN acc
    ELSE [seen |-> acc.seen \cup {post.uri}, out |-> Append(acc.out, post)]

\* The filter over the elements lo..hi of s, in order.
RECURSIVE DedupFrom(_, _, _, _)
DedupFrom(s, lo, hi, acc) ==
    IF lo > hi THEN acc
    ELSE IF lo = hi THEN DedupStep(acc, s[lo])
    ELSE LET mid == (lo + hi) \div 2
             first == DedupFrom(s, lo, mid, acc)
         IN IF Len(first.out) >= 0 THEN DedupFrom(s, mid + 1, hi, first) ELSE first

DedupByUri(s) == DedupFrom(s, 1, Len(s), [seen |-> {}, out |-> <<>>]).out

\* ------------------------------------------------------------ date range

\* postsWithDates = posts.filter((p) => p.createdAt)
PostsWithDates(s) == SelectSeq(s, LAMBDA p : IsSome(p.createdAt))

\* reduce without an initial value: the accumulator starts at the first
\* element and is replaced only on a strict comparison.  The elements
\* lo..hi of s are visited in order.
RECURSIVE ReduceOldest(_, _, _, _)
ReduceOldest(s, lo, hi, oldest) ==
    IF lo > hi THEN oldest
    ELSE IF lo = hi
    THEN IF s[lo].createdAt[1] < oldest.createdAt[1] THEN s[lo] ELSE oldest
    ELSE LET mid == (lo + hi) \div 2
             first == ReduceOldest(s, lo, mid, oldest)
         IN IF IsSome(first.createdAt) THEN ReduceOldest(s, mid + 1, hi, first) ELSE first

RECURSIVE ReduceNewest(_, _, _, _)
ReduceNewest(s, lo, hi, newest) ==
    IF lo > hi THEN newest
    ELSE IF lo = hi
    THEN IF s[lo].createdAt[1] > newest.createdAt[1] THEN s[lo] ELSE newest
    ELSE LET mid == (lo + hi) \div 2
             first == ReduceNewest(s, lo, mid, newest)
         IN IF IsSome(first.createdAt) THEN ReduceNewest(s, mid + 1, hi, first) ELSE first

\* A scan that stays at the first post with a date.
OldestPostFirstDated(posts) ==
    LET d == PostsWithDates(posts) IN
    IF Len(d) > 0 THEN Some(d[1]) ELSE None

OldestPost(posts) ==
    LET d == PostsWithDates(posts) IN
    IF Len(d) > 0 THEN Some(ReduceOldest(d, 2, Len(d), d[1])) ELSE None

NewestPost(posts) ==
    LET d == PostsWithDates(posts) IN
    IF Len(d) > 0 THEN Some(ReduceNewest(d, 2, Len(d), d[1])) ELSE None

\* --------------------------------------------------------------- ranking

\* A score that gives every count the same weight.
calculateEngagementScore2Unweighted(post) ==
    2 * post.likeCount + 2 * post.repostCount + 2 * post.replyCount

\* calculateEngagementScore, doubled:
\* 2 * (likeCount + repostCount * 2 + replyCount * 1.5)
calculateEngagementScore2(post) ==
    2 * post.likeCount + 4 * post.repostCount + 3 * post.replyCount

\* [...posts].sort((a, b) => score(b) - score(a)): a stable sort, descending.
\* Built by inserting each element, in input order, after every element
\* already placed whose score is not smaller.
InsertByScore(sorted, x) ==
    LET k == Cardinality({j \in 1..Len(sorted) :
                 calculateEngagementScore2(sorted[j]) >= calculateEngagementScore2(x)})
    IN SubSeq(sorted, 1, k) \o <<x>> \o SubSeq(sorted, k + 1, Len(sorted))

RECURSIVE SortFrom(_, _, _, _)
SortFrom(s, lo, hi, sorted) ==
    IF lo > hi THEN sorted
    ELSE IF lo = hi THEN InsertByScore(sorted, s[lo])
    ELSE LET mid == (lo + hi) \div 2
             first == SortFrom(s, lo, mid, sorted)
         IN IF Len(first) >= 0 THEN SortFrom(s, mid + 1, hi, first) ELSE first

SortByEngagement(s) == SortFrom(s, 1, Len(s), <<>>)

\* .slice(0, 150)
Slice(s, n) == SubSeq(s, 1, Min(n, Len(s)))

\* A ranker that keeps every post.
RankPostsAll(s) == SortByEngagement(s)

RankPosts(s) == Slice(SortByEngagement(s), TopN)

\* ----------------------------------------------------------- topic filter

\* The characters of [A-Za-z0-9_] that the texts of the model are written in.
WordChars == {"a", "i", "m", "o", "d", "e", "l", "x", "A", "I"}

\* The "i" flag of the pattern, on those characters.
LowerChar(c) == IF c = "A" THEN "a" ELSE IF c = "I" THEN "i" ELSE c

CharAt(s, i) == SubSeq(s, i, i)

\* The literal w, in lower case, is read at position i of s.
LiteralAt(s, i, w) ==
    /\ i + Len(w) - 1 <= Len(s)
    /\ \A k \in 1..Len(w) : LowerChar(CharAt(s, i + k - 1)) = CharAt(w, k)

\* \b in front of position i: a word character on exactly one side.
WordBoundary(s, i) ==
    (i > 1 /\ CharAt(s, i - 1) \in WordChars)
        # (i <= Len(s) /\ CharAt(s, i) \in WordChars)

\* AI_KEYWORDS_REGEX.test(s), for two alternatives of the pattern: the
\* word-bounded "\\bai\\b" and the unbounded "model".  The texts of the
\* model are written so that no other alternative can match them.
AI_KEYWORDS_REGEX(s) ==
    \E i \in 1..Len(s) :
        \/ LiteralAt(s, i, "model")
        \/ WordBoundary(s, i) /\ LiteralAt(s, i, "ai") /\ WordBoundary(s, i + 2)

\* A filter that looks at the text of the post alone.
isAIRelatedTextOnly(post) == AI_KEYWORDS_REGEX(post.text)

\* isAIRelated: the pattern is tested on post.text + (quotedPost?.text || "").
isAIRelated(post) ==
    LET textToCheck == post.text \o (IF IsSome(post.quotedPost)
                                     THEN post.quotedPost[1].text ELSE "")
    IN AI_KEYWORDS_REGEX(textToCheck)

\* ---------------------------------------------------------- index mapping

\* An index taken as 1-based: the "- 1" applied twice over.
ArrayAtOneBased(arr, idx) ==
    IF idx \in 1..Len(arr) THEN Some(arr[idx]) ELSE None

\* An index outside the array read as the nearest end of the array.
ArrayAtClamped(arr, idx) ==
    IF Len(arr) = 0 THEN None
    ELSE IF idx < 0 THEN Some(arr[1])
    ELSE IF idx > Len(arr) - 1 THEN Some(arr[Len(arr)])
    ELSE Some(arr[idx + 1])

\* postsForDigest[notable.postIndex - 1]: undefined outside 0..length-1.
ArrayAt(arr, idx) ==
    IF idx \in 0..(Len(arr) - 1) THEN Some(arr[idx + 1]) ELSE None

\* The object literal built for a found post: createdAt is not copied.
NotableView(post) ==
    [uri |-> post.uri,
     text |-> post.text,
     likeCount |-> post.likeCount,
     repostCount |-> post.repostCount,
     replyCount |-> post.replyCount,
     quotedPost |-> post.quotedPost]

\* digestData.notablePosts.map(...).filter((p) => p.post !== null)
MapNotablePosts(notablePosts, postsForDigest) ==
    LET mapped == [i \in 1..Len(notablePosts) |->
            LET post == ArrayAt(postsForDigest, notablePosts[i].postIndex - 1) IN
            [post |-> IF IsSome(post) THEN Some(NotableView(post[1])) ELSE None,
             reason |-> notablePosts[i].reason]]
    IN SelectSeq(mapped, LAMBDA p : p.post # None)

\* ------------------------------------------------------------------ cache

\* A key without the date.
getCacheKeyNoDate(type, t) == <<"digest", type>>

\* getCacheKey: `digest:${type}:${today}`
getCacheKey(type, t) == <<"digest", type, DateOf(t)>>

\* An expiry one tick short of a day.
CacheTtlShort == TicksPerDay - 1

\* Cache expires after 24 hours: { ex: 86400 }
CacheTtl == TicksPerDay

\* The store's get: a key that was never set, or whose expiry has passed,
\* reads as null.
KvGet(store, key, t) ==
    IF key \in DOMAIN store /\ t < store[key].expiresAt
    THEN Some(store[key].value) ELSE None

\* A set that leaves an existing record in place.
KvSetKeepsFirst(store, key, value, ex, t) ==
    [k \in DOMAIN store \cup {key} |->
        IF k \in DOMAIN store THEN store[k]
        ELSE [value |-> value, expiresAt |-> t + ex]]

\* The store's set with an expiry: the value under the key is replaced.
KvSet(store, key, value, ex, t) ==
    [k \in DOMAIN store \cup {key} |->
        IF k = key THEN [value |-> value, expiresAt |-> t + ex] ELSE store[k]]

\* What JSON serialisation keeps of a digest object: a property whose value
\* is undefined (an overview or trendingTopics the model left out) is
\* dropped, null and every other value is kept.
JsonValue(d) ==
    [f \in {g \in DOMAIN d :
              ~(g \in {"overview", "trendingTopics"} /\ d[g] = None)} |-> d[f]]

\* The DigestCache object written by setCache, as the store holds it.
CacheEntry(digest, t) == [digest |-> JsonValue(digest), date |-> DateOf(t)]

\* JSON.stringify({ ...cached.digest, digestType, cached: true })
CachedBody(cached, digestType) ==
    [f \in DOMAIN cached.digest \cup {"digestType", "cached"} |->
        IF f = "digestType" THEN digestType
        ELSE IF f = "cached" THEN TRUE
        ELSE cached.digest[f]]

\* JSON.stringify({ ...digest, cached: false })
FreshBody(digest) ==
    LET j == JsonValue(digest) IN
    [f \in DOMAIN j \cup {"cached"} |-> IF f = "cached" THEN FALSE ELSE j[f]]

\* getCache that finds nothing, whatever the store holds.
getCacheBlind(store, type, t, outcome) == [threw |-> FALSE, value |-> None]

\* getCache without the catch: the store's failure reaches the handler.
getCacheRethrows(store, type, t, outcome) ==
    IF outcome = "throw"
    THEN [threw |-> TRUE, value |-> None]
    ELSE [threw |-> FALSE, value |-> KvGet(store, getCacheKey(type, t), t)]

\* getCache that looks under the key of the day before.
getCacheYesterday(store, type, t, outcome) ==
    IF outcome = "throw"
    THEN [threw |-> FALSE, value |-> None]
    ELSE [threw |-> FALSE,
          value |-> KvGet(store, getCacheKey(type, t - TicksPerDay), t)]

\* getCache: try { return await kv.get(key) } catch { return null }.
\* outcome is what the store call does: "ok" or "throw".
getCache(store, type, t, outcome) ==
    IF outcome = "throw"
    THEN [threw |-> FALSE, value |-> None]
    ELSE [threw |-> FALSE, value |-> KvGet(store, getCacheKey(type, t), t)]

\* setCache whose failure comes after the store took the write, and reaches
\* the handler.
setCacheWritesThenThrows(store, type, digest, called, t, outcome) ==
    [threw |-> outcome = "throw",
     store |-> KvSet(store, getCacheKey(type, called),
                     CacheEntry(digest, called), CacheTtl, t)]

\* setCache: try { await kv.set(key, {digest, date}, {ex}) } catch { log }.
\* The key and the entry are computed when setCache is called (at tick
\* called); the store applies the write, and starts the expiry, when the
\* call reaches it (at tick t).
setCache(store, type, digest, called, t, outcome) ==
    IF outcome = "throw"
    THEN [threw |-> FALSE, store |-> store]
    ELSE [threw |-> FALSE,
          store |-> KvSet(store, getCacheKey(type, called),
                          CacheEntry(digest, called), CacheTtl, t)]

\* ------------------------------------------------------------------ state

VARIABLES
    now,        \* the clock, in ticks
    kv,         \* the key-value store: key -> [value, expiresAt]
    apiKey,     \* whether process.env.ANTHROPIC_API_KEY is set
    timeline,   \* the upstream timeline: the raw items getTimeline pages through
    aiFeed,     \* the upstream external feed of AI_FEEDS
    req,        \* per request: the handler's position (pc) and its locals
    stored      \* history: per digest type, the digest object and the tick of
                \* the last setCache call whose write the store accepted

vars == <<now, kv, apiKey, timeline, aiFeed, req, stored>>

\* A request that has not arrived yet.
IdleReq ==
    [pc |-> "start",
     digestType |-> "general", refresh |-> FALSE, sessionDid |-> None,
     kvGet |-> "none", readAt |-> None, cachedAtStart |-> FALSE,
     kvSet |-> "none", cutShort |-> FALSE, timelineFailed |-> None,
     twentyFourHoursAgo |-> 0, cursor |-> None, oldPostCount |-> 0, allPosts |-> <<>>,
     posts |-> <<>>, oldestPost |-> None, newestPost |-> None,
     aiTimelinePosts |-> <<>>, keywordMatches |-> None, feedPostCount |-> None,
     feedCursor |-> None, feedOldPostCount |-> 0, feedPosts |-> <<>>,
     feedFailed |-> FALSE, cookieDeleted |-> FALSE,
     postsForDigest |-> <<>>, digestData |-> None, digest |-> None, resp |-> None]

\* The handler returns: its locals are gone, the response and the record of
\* what the request asked for and met at the store are kept.
Respond(r, status, body) ==
    [IdleReq EXCEPT !.pc = "done",
                    !.digestType = req[r].digestType, !.refresh = req[r].refresh,
                    !.cachedAtStart = req[r].cachedAtStart,
                    !.timelineFailed = req[r].timelineFailed,
                    !.resp = Some([status |-> status, body |-> body])]

GenericError == [error |-> "Failed to generate digest"]

MissingKeyError == [error |-> "Missing Anthropic API key"]

\* ---------------------------------------------------------------- actions

\* The cache is read whatever refresh says.
ReadsCacheAlways(refresh) == TRUE

\* Line 602, if (!refresh): whether the request reads the cache.
ReadsCache(refresh) == ~refresh

\* A handler without the key check.
MissingKeyNever(hasKey) == FALSE

\* Line 612: if (!process.env.ANTHROPIC_API_KEY)
MissingKey(hasKey) == ~hasKey

\* Lines 596-628: the request arrives; unless refresh is set the cache is
\* read and a hit is returned; then the API key and the session cookie are
\* checked.  kvGet, readAt and cachedAtStart record what the request met
\* at the store; readAt is dropped when the session is restored.
GetStart(r) ==
    /\ req[r].pc = "start"
    /\ \E digestType \in DigestTypes, refresh \in BOOLEAN,
          sessionDid \in {None, Some("did")}, outcome \in {"ok", "throw"} :
        LET reads == ReadsCache(refresh)
            got == IF reads THEN getCache(kv, digestType, now, outcome)
                   ELSE [threw |-> FALSE, value |-> None]
            me == [req[r] EXCEPT !.digestType = digestType, !.refresh = refresh,
                                 !.sessionDid = sessionDid,
                                 !.kvGet = IF reads THEN outcome ELSE "none",
                                 !.readAt = Some(now),
                                 !.cachedAtStart =
                                     IsSome(KvGet(kv, getCacheKey(digestType, now), now))]
        IN req' = [req EXCEPT ![r] =
             IF got.threw
             THEN [me EXCEPT !.pc = "done",
                     !.resp = Some([status |-> 500, body |-> [error |-> "unhandled"]])]
             ELSE IF IsSome(got.value)
             THEN [me EXCEPT !.pc = "done",
                     !.resp = Some([status |-> 200,
                                    body |-> CachedBody(got.value[1], digestType)])]
             ELSE IF MissingKey(apiKey)
             THEN [me EXCEPT !.pc = "done",
                     !.resp = Some([status |-> 500, body |-> MissingKeyError])]
             ELSE IF ~IsSome(sessionDid)
             THEN [me EXCEPT !.pc = "done",
                     !.resp = Some([status |-> 401,
                                    body |-> [error |-> "Not authenticated",
                                              needsAuth |-> TRUE]])]
             ELSE [me EXCEPT !.pc = "restore"]]
    /\ UNCHANGED <<now, kv, stored, apiKey, timeline, aiFeed>>

\* An expired session answered without deleting the cookie.
SessionExpiredKeepsCookie(r) ==
    Respond(r, 401, [error |-> "Session expired", needsAuth |-> TRUE])

\* Lines 635-641: restore gave no session; the bsky_session cookie is
\* deleted (cookieDeleted records it) and the request is answered 401.
SessionExpired(r) ==
    [Respond(r, 401, [error |-> "Session expired", needsAuth |-> TRUE]) EXCEPT
        !.cookieDeleted = TRUE]

\* Lines 630-652: the OAuth session is restored; the collector's locals are
\* initialised.
Restore(r) ==
    /\ req[r].pc = "restore"
    /\ \E outcome \in {"ok", "null", "throw"} :
        req' = [req EXCEPT ![r] =
             IF outcome = "throw" THEN Respond(r, 500, GenericError)
             ELSE IF outcome = "null" THEN SessionExpired(r)
             ELSE [req[r] EXCEPT !.pc = "timeline",
                     !.readAt = None,
                     !.twentyFourHoursAgo = now - TicksPerDay,
                     !.cursor = None, !.oldPostCount = 0, !.allPosts = <<>>]]
    /\ UNCHANGED <<now, kv, stored, apiKey, timeline, aiFeed>>

\* The upstream's answer to a page request at a cursor: the next k items
\* (k = 0 is an empty page) and a cursor or none.
PageAt(feed, cursor, k) ==
    LET pos == IF IsSome(cursor) THEN cursor[1] ELSE 0 IN
    SubSeq(feed, pos + 1, pos + k)

PageSizes(feed, cursor) ==
    LET pos == IF IsSome(cursor) THEN cursor[1] ELSE 0 IN
    0..Min(PageLimit, Len(feed) - pos)

NextCursors(feed, cursor, k) ==
    LET pos == IF IsSome(cursor) THEN cursor[1] ELSE 0 IN
    {None, Some(pos + k)}

\* Whether the upstream ended the paging while items were left.
CutsShort(feed, cursor, k, next) ==
    LET pos == IF IsSome(cursor) THEN cursor[1] ELSE 0 IN
    pos + k < Len(feed) /\ (k = 0 \/ next = None)

\* A failed page fetch that only ends the loop, as the catch of the
\* external feed does: the handler goes on with what was collected.
TimelineFetchFailedBreaks(r) ==
    [req[r] EXCEPT !.pc = "dedup",
                   !.timelineFailed = Some(Len(req[r].allPosts))]

\* getTimeline throws inside the handler's try block: the catch at lines
\* 808-814 answers.  timelineFailed records the failure and how many posts
\* had been retained when it happened.
TimelineFetchFailed(r) ==
    [Respond(r, 500, GenericError) EXCEPT
        !.timelineFailed = Some(Len(req[r].allPosts))]

\* Lines 654-679: one iteration of the timeline loop.
FetchTimeline(r) ==
    /\ req[r].pc = "timeline"
    /\ \/ req' = [req EXCEPT ![r] = TimelineFetchFailed(r)]
       \/ \E k \in PageSizes(timeline, req[r].cursor) :
          \E next \in NextCursors(timeline, req[r].cursor, k) :
            LET page == PageAt(timeline, req[r].cursor, k)
                acc == ProcessPage(page, req[r].twentyFourHoursAgo,
                          [oldPostCount |-> req[r].oldPostCount,
                           allPosts |-> req[r].allPosts])
                short == req[r].cutShort \/ CutsShort(timeline, req[r].cursor, k, next)
            IN req' = [req EXCEPT ![r] =
                 IF Len(page) = 0
                 THEN [req[r] EXCEPT !.pc = "dedup", !.cutShort = short]
                 ELSE [req[r] EXCEPT
                         !.oldPostCount = acc.oldPostCount,
                         !.allPosts = acc.allPosts,
                         !.cursor = next,
                         !.cutShort = short,
                         !.pc = IF StopPaging(acc.oldPostCount, next, Len(acc.allPosts),
                                              MAX_OLD_POSTS, TimelineCap)
                                THEN "dedup" ELSE "timeline"]]
    /\ UNCHANGED <<now, kv, stored, apiKey, timeline, aiFeed>>

\* Lines 681-711: deduplicate, find the date range, and for the AI digest
\* keep the keyword matches of the timeline.
Dedup(r) ==
    /\ req[r].pc = "dedup"
    /\ LET posts == DedupByUri(req[r].allPosts)
           me == [req[r] EXCEPT !.posts = posts,
                                !.oldestPost = OldestPost(posts),
                                !.newestPost = NewestPost(posts)]
       IN req' = [req EXCEPT ![r] =
            IF req[r].digestType = "ai"
            THEN LET aiTimelinePosts == SelectSeq(posts, isAIRelated) IN
                 [me EXCEPT !.pc = "profile",
                            !.aiTimelinePosts = aiTimelinePosts,
                            !.keywordMatches = Some(Len(aiTimelinePosts)),
                            !.feedCursor = None, !.feedOldPostCount = 0,
                            !.feedPosts = <<>>]
            ELSE [me EXCEPT !.pc = "rank"]]
    /\ UNCHANGED <<now, kv, stored, apiKey, timeline, aiFeed>>

\* A feed failure that reaches the handler's catch block.
FeedFetchFailedAborts(r) ==
    [Respond(r, 500, GenericError) EXCEPT !.feedFailed = TRUE]

\* Lines 445-447: the catch inside the loop over AI_FEEDS logs the failure;
\* AI_FEEDS has no further feed, so fetchAIFeedPosts returns allPosts as
\* it stands.  feedFailed records that the catch was entered.
FeedFetchFailed(r) ==
    [req[r] EXCEPT !.pc = "rank", !.feedFailed = TRUE]

\* Lines 407-417 of fetchAIFeedPosts: the feed's handle is resolved.  A
\* failure is caught, and AI_FEEDS has no further feed.
ResolveFeed(r) ==
    /\ req[r].pc = "profile"
    /\ \E outcome \in {"ok", "throw"} :
        req' = [req EXCEPT ![r] =
                  IF outcome = "ok" THEN [req[r] EXCEPT !.pc = "feed"]
                  ELSE FeedFetchFailed(r)]
    /\ UNCHANGED <<now, kv, stored, apiKey, timeline, aiFeed>>

\* Lines 419-447 of fetchAIFeedPosts: one iteration of the feed loop.  A
\* failed page fetch is caught after the loop; what was pushed stays.
FetchFeed(r) ==
    /\ req[r].pc = "feed"
    /\ \/ req' = [req EXCEPT ![r] = FeedFetchFailed(r)]
       \/ \E k \in PageSizes(aiFeed, req[r].feedCursor) :
          \E next \in NextCursors(aiFeed, req[r].feedCursor, k) :
            LET page == PageAt(aiFeed, req[r].feedCursor, k)
                acc == ProcessPage(page, req[r].twentyFourHoursAgo,
                          [oldPostCount |-> req[r].feedOldPostCount,
                           allPosts |-> req[r].feedPosts])
            IN req' = [req EXCEPT ![r] =
                 IF Len(page) = 0
                 THEN [req[r] EXCEPT !.pc = "rank"]
                 ELSE [req[r] EXCEPT
                         !.feedOldPostCount = acc.oldPostCount,
                         !.feedPosts = acc.allPosts,
                         !.feedCursor = next,
                         !.pc = IF StopPaging(acc.oldPostCount, next, Len(acc.allPosts),
                                              MAX_OLD_POSTS_FEED, FeedCap)
                                THEN "rank" ELSE "feed"]]
    /\ UNCHANGED <<now, kv, stored, apiKey, timeline, aiFeed>>

\* The posts handed to the sort: the deduplicated timeline, or for the AI
\* digest the keyword matches followed by the feed posts, deduplicated.
RankerInput(q) ==
    IF q.digestType = "ai"
    THEN DedupByUri(q.aiTimelinePosts \o q.feedPosts)
    ELSE q.posts

\* Lines 713-733: the candidate set is ranked and truncated.
Rank(r) ==
    /\ req[r].pc = "rank"
    /\ req' = [req EXCEPT ![r] =
            [req[r] EXCEPT
               !.pc = "complete",
               !.feedPostCount = IF req[r].digestType = "ai"
                                 THEN Some(Len(req[r].feedPosts)) ELSE None,
               !.postsForDigest = RankPosts(RankerInput(req[r]))]]
    /\ UNCHANGED <<now, kv, stored, apiKey, timeline, aiFeed>>

\* ------------------------------------------------------------- completion

\* The text of a completion: trim, strip a leading ``` or ```json fence and
\* a trailing ```, then JSON.parse.  fence is how the text is wrapped
\* ("none", "json", "bare", or "other" for any other language tag, which the
\* pattern leaves in front of the payload); json is the parsed payload, or
\* None when the payload is no JSON.
ParseCompletion(out) ==
    IF out.fence \in {"none", "json", "bare"} THEN out.json ELSE None

\* Lines 783-797: the digest object.
BuildDigest(q, digestData, t) ==
    LET base == [totalPosts |-> Len(q.posts),
                 postsAnalyzed |-> Len(q.postsForDigest),
                 newestPostDate |-> IF IsSome(q.newestPost)
                                    THEN q.newestPost[1].createdAt ELSE None,
                 oldestPostDate |-> IF IsSome(q.oldestPost)
                                    THEN q.oldestPost[1].createdAt ELSE None,
                 generatedAt |-> t,
                 digestType |-> q.digestType]
        extra == [keywordMatches |-> q.keywordMatches[1],
                  feedPostCount |-> q.feedPostCount[1]]
        meta == IF IsSome(q.keywordMatches) /\ IsSome(q.feedPostCount)
                THEN base @@ extra ELSE base
    IN [overview |-> digestData.overview,
        notablePosts |-> MapNotablePosts(digestData.notablePosts[1], q.postsForDigest),
        trendingTopics |-> digestData.trendingTopics,
        meta |-> meta]

\* Lines 740-797: the completion call, the parse and the index mapping.  A
\* failed call, a completion without text, a parse failure and a
\* notablePosts that cannot be mapped over all end in the catch block.
Complete(r, outcomes) ==
    /\ req[r].pc = "complete"
    /\ \E out \in outcomes :
        req' = [req EXCEPT ![r] =
             IF out.kind # "text" THEN Respond(r, 500, GenericError)
             ELSE LET digestData == ParseCompletion(out) IN
                  IF ~IsSome(digestData) THEN Respond(r, 500, GenericError)
                  ELSE IF ~IsSome(digestData[1].notablePosts)
                  THEN Respond(r, 500, GenericError)
                  ELSE [req[r] EXCEPT !.pc = "setcache",
                          !.digestData = digestData,
                          !.digest = Some(BuildDigest(req[r], digestData[1], now))]]
    /\ UNCHANGED <<now, kv, stored, apiKey, timeline, aiFeed>>

\* Lines 799-807: the write of setCache reaches the store (or fails) and
\* the digest is returned.  setCache was called in the same synchronous
\* stretch that built the digest, at the tick of meta.generatedAt.
SetCache(r) ==
    /\ req[r].pc = "setcache"
    /\ \E outcome \in {"ok", "throw"} :
        LET res == setCache(kv, req[r].digestType, req[r].digest[1],
                            req[r].digest[1].meta.generatedAt, now, outcome) IN
        /\ kv' = res.store
        /\ stored' = IF outcome = "ok" /\ ~res.threw
                     THEN [stored EXCEPT ![req[r].digestType] =
                             Some([digest |-> req[r].digest[1],
                                   called |-> req[r].digest[1].meta.generatedAt])]
                     ELSE stored
        /\ req' = [req EXCEPT ![r] =
              IF res.threw
              THEN [Respond(r, 500, GenericError) EXCEPT !.kvSet = outcome]
              ELSE [Respond(r, 200, FreshBody(req[r].digest[1])) EXCEPT !.kvSet = outcome]]
    /\ UNCHANGED <<now, apiKey, timeline, aiFeed>>

\* Time passes; the store drops the keys whose expiry is reached.
Tick ==
    /\ now < MaxTime
    /\ now' = now + 1
    /\ kv' = [k \in {j \in DOMAIN kv : kv[j].expiresAt > now + 1} |-> kv[k]]
    /\ UNCHANGED <<stored, apiKey, timeline, aiFeed, req>>

\* ----------------------------------------------------------------- inputs

RawItem(uri, text, createdAt, likes) ==
    [uri |-> uri, text |-> text, createdAt |-> createdAt,
     likeCount |-> likes, repostCount |-> None, replyCount |-> None,
     embed |-> None]

Entry(i, why) == [postIndex |-> i, reason |-> why]

JsonText(fence, overview, notablePosts, trendingTopics) ==
    [kind |-> "text", fence |-> fence,
     json |-> Some([overview |-> overview, notablePosts |-> notablePosts,
                    trendingTopics |-> trendingTopics])]

\* The completions of the request-level specification: the three failures,
\* a conforming object, and objects with a part missing.
FewCompletions ==
    {[kind |-> "throw"], [kind |-> "notext"],
     [kind |-> "text", fence |-> "none", json |-> None],
     JsonText("other", Some("o"), Some(<<Entry(1, "w")>>), Some(<<"t">>)),
     JsonText("json", Some("o"), Some(<<Entry(1, "w")>>), Some(<<"t">>)),
     JsonText("none", None, Some(<<>>), None),
     JsonText("bare", Some("o"), None, Some(<<"t">>))}

\* The timelines of the request-level specification.
FewTimelines == {<<RawItem("u1", "ai", Some(MaxTime), Some(1))>>}

FewFeeds == {<<>>}

\* ---------------------------------------------------------- specification

Init ==
    /\ now = 0
    /\ kv = <<>>
    /\ stored = [t \in DigestTypes |-> None]
    /\ apiKey \in BOOLEAN
    /\ timeline \in FewTimelines
    /\ aiFeed \in FewFeeds
    /\ req = [r \in Requests |-> IdleReq]

Next ==
    \/ Tick
    \/ \E r \in Requests : GetStart(r)
    \/ \E r \in Requests : Restore(r)
    \/ \E r \in Requests : FetchTimeline(r)
    \/ \E r \in Requests : Dedup(r)
    \/ \E r \in Requests : ResolveFeed(r)
    \/ \E r \in Requests : FetchFeed(r)
    \/ \E r \in Requests : Rank(r)
    \/ \E r \in Requests : Complete(r, FewCompletions)
    \/ \E r \in Requests : SetCache(r)

Spec == Init /\ [][Next]_vars

\* ------------------------------------------- collection: inputs and spec

\* A post older than every cutoff of the model, and one newer than all.
OldStamp == Some(0 - TicksPerDay - 1)
NewStamp == Some(MaxTime)

RECURSIVE Repeat(_, _)
Repeat(x, n) == IF n = 0 THEN <<>> ELSE <<x>> \o Repeat(x, n - 1)

OldItem == RawItem("old", "x", OldStamp, None)

\* 25 consecutive posts older than the cutoff.
Old25 == Repeat(OldItem, MAX_OLD_POSTS + 5)

\* [new, new, old x 20, new]
TrailingNew == RawItem("n3", "x", NewStamp, None)
Mixed23 ==
    <<RawItem("n1", "x", NewStamp, None), RawItem("n2", "x", NewStamp, None)>>
    \o Repeat(OldItem, MAX_OLD_POSTS) \o <<TrailingNew>>

\* Short feeds over two uris; likeCount is the position in the feed plus
\* base, so the copies of a uri are told apart.
MaxFeedLen == 3
MaxExternalLen == 2

FeedOf(picks, base) ==
    [i \in 1..Len(picks) |->
        RawItem(picks[i][1], picks[i][2], NewStamp, Some(base + i))]

SeqsUpTo(S, n) == UNION {[1..m -> S] : m \in 0..n}

ShortTimelines ==
    {FeedOf(p, 0) : p \in SeqsUpTo({"u1", "u2"} \X {"ai", "x"}, MaxFeedLen)}

ShortFeeds ==
    {FeedOf(p, MaxFeedLen) : p \in SeqsUpTo({"u1", "u3"} \X {"x"}, MaxExternalLen)}

OneCompletion ==
    {JsonText("none", Some("o"), Some(<<Entry(1, "w")>>), Some(<<"t">>))}

InitCollect ==
    /\ now = 0
    /\ kv = <<>>
    /\ stored = [t \in DigestTypes |-> None]
    /\ apiKey = TRUE
    /\ \/ timeline \in ShortTimelines /\ aiFeed \in ShortFeeds
       \/ timeline \in {Old25, Mixed23} /\ aiFeed = <<>>
    /\ req = [r \in Requests |-> IdleReq]

\* One request runs through the handler.
NextCollect ==
    \/ GetStart(1)
    \/ Restore(1)
    \/ FetchTimeline(1)
    \/ Dedup(1)
    \/ ResolveFeed(1)
    \/ FetchFeed(1)
    \/ Rank(1)
    \/ Complete(1, OneCompletion)
    \/ SetCache(1)

SpecCollect == InitCollect /\ [][NextCollect]_vars

\* ------------------------------------------------- collection properties

\* The timeline loop of request q has ended with the upstream having served
\* every page it was asked for.
Collected(q) == q.pc = "dedup" /\ ~q.cutShort

\* C5 as stated: on 25 old posts the counter stops at 20 and nothing is
\* retained.
C5_Original ==
    \A r \in Requests :
        (timeline = Old25 /\ Collected(req[r]))
          => req[r].oldPostCount = MAX_OLD_POSTS /\ req[r].allPosts = <<>>

\* C5: on 25 old posts the collector asks for another page only while the
\* counter is below 20 at the end of a page; it ends with the counter
\* between 20 and 25 (the threshold is tested after a whole page has been
\* scanned) and nothing retained.
C5_StopsAtPageEnd ==
    \A r \in Requests :
        timeline = Old25 =>
          /\ req[r].pc = "timeline" => req[r].oldPostCount < MAX_OLD_POSTS
          /\ Collected(req[r]) =>
                /\ req[r].oldPostCount \in MAX_OLD_POSTS..Len(Old25)
                /\ req[r].allPosts = <<>>

\* The 25 old posts came in one page: the counter stands at 25.
C5_Witness ==
    \E r \in Requests :
        /\ timeline = Old25 /\ Collected(req[r])
        /\ req[r].oldPostCount = Len(Old25)
        /\ req[r].allPosts = <<>>

\* C6 as stated: however [new, new, old x 20, new] is paged, the trailing
\* new post resets the counter and is retained.
C6_Original ==
    \A r \in Requests :
        (timeline = Mixed23 /\ Collected(req[r]))
          => /\ req[r].oldPostCount = 0
             /\ extractPost(TrailingNew) \in Range(req[r].allPosts)

\* C6: on [new, new, old x 20, new] the trailing new post resets the
\* counter and is retained unless a page ends with the 20th old post; then
\* the collector stops with the counter at 20 and never fetches it.
C6_TrailingNewUnlessPageEnds ==
    \A r \in Requests :
        (timeline = Mixed23 /\ Collected(req[r])) =>
          IF req[r].cursor = Some(Len(Mixed23) - 1)
          THEN /\ req[r].oldPostCount = MAX_OLD_POSTS
               /\ extractPost(TrailingNew) \notin Range(req[r].allPosts)
               /\ Len(req[r].allPosts) = 2
          ELSE /\ req[r].oldPostCount = 0
               /\ Len(req[r].allPosts) = 3
               /\ req[r].allPosts[3] = extractPost(TrailingNew)

\* The feed was served to its end without a page ending on the 20th old
\* post: the trailing post is retained.
C6_Witness ==
    \E r \in Requests :
        /\ timeline = Mixed23 /\ Collected(req[r])
        /\ req[r].cursor = None
        /\ req[r].oldPostCount = 0
        /\ req[r].allPosts[3] = extractPost(TrailingNew)

NoDupUri(s) == \A i, j \in 1..Len(s) : s[i].uri = s[j].uri => i = j

\* The elements of s that no earlier element shares its uri with, in the
\* order of s.
FirstOccurrences(s) ==
    LET idx == {i \in 1..Len(s) : \A j \in 1..(i - 1) : s[j].uri # s[i].uri}
    IN [k \in 1..Cardinality(idx) |->
          s[CHOOSE i \in idx : Cardinality({j \in idx : j <= i}) = k]]

\* C7: the deduplicated timeline is the sequence of first occurrences of
\* the collected posts and has no uri twice; the same holds of the merged
\* set of the AI digest; and the ranked candidates have no uri twice.
C7_DedupByUri ==
    \A r \in Requests :
        LET q == req[r] IN
        /\ q.pc \in {"profile", "feed", "rank", "complete", "setcache"} =>
              /\ q.posts = FirstOccurrences(q.allPosts)
              /\ NoDupUri(q.posts)
        /\ q.pc \in {"complete", "setcache"} =>
              /\ NoDupUri(q.postsForDigest)
              /\ q.digestType = "ai" =>
                    /\ RankerInput(q) = FirstOccurrences(q.aiTimelinePosts \o q.feedPosts)
                    /\ Len(q.postsForDigest) = Len(RankerInput(q))
                    /\ Range(q.postsForDigest) = Range(RankerInput(q))

\* An AI digest whose timeline repeated a uri and whose feed brought a post
\* that the timeline already had.
C7_Witness ==
    \E r \in Requests :
        LET q == req[r] IN
        /\ q.pc = "complete" /\ q.digestType = "ai"
        /\ Len(q.posts) < Len(q.allPosts)
        /\ Len(q.postsForDigest) < Len(q.aiTimelinePosts) + Len(q.feedPosts)
        /\ Len(q.postsForDigest) >= 2

CapExtra == 3
CapBack == 5

LongNew ==
    [i \in 1..(TimelineCap + CapExtra) |-> RawItem(i, "x", NewStamp, None)]

\* The handler's locals in the timeline loop when the first n items of feed
\* have been served, the last page with a cursor; n = 0 is the state the
\* loop is entered in.
AfterPages(type, feed, n) ==
    LET cutoff == 0 - TicksPerDay
        acc == ProcessPage(SubSeq(feed, 1, n), cutoff,
                           [oldPostCount |-> 0, allPosts |-> <<>>])
    IN [IdleReq EXCEPT !.pc = "timeline", !.digestType = type, !.refresh = TRUE,
                       !.sessionDid = Some("did"),
                       !.twentyFourHoursAgo = cutoff,
                       !.cursor = IF n = 0 THEN None ELSE Some(n),
                       !.oldPostCount = acc.oldPostCount,
                       !.allPosts = acc.allPosts]

\* Timelines of dated posts: older than the cutoff of a request that
\* arrives at tick 0, dated exactly at that cutoff, or recent.
MaxDatedLen == 4
CutoffStamp == Some(0 - TicksPerDay)

DatedTimelines ==
    {[i \in 1..Len(d) |-> RawItem(i, "x", d[i], None)] :
        d \in SeqsUpTo({OldStamp, CutoffStamp, NewStamp}, MaxDatedLen)}

\* The loop is entered on a short timeline or on one of the two long
\* scenarios, or is under way on the timeline longer than the cap.
InitLoop ==
    /\ now = 0
    /\ kv = <<>>
    /\ stored = [t \in DigestTypes |-> None]
    /\ apiKey = TRUE
    /\ aiFeed = <<>>
    /\ \E type \in DigestTypes :
        \/ /\ timeline \in ShortTimelines \cup {Old25, Mixed23}
           /\ req = [r \in Requests |->
                       IF r = 1 THEN AfterPages(type, timeline, 0) ELSE IdleReq]
        \/ /\ timeline = LongNew
           /\ req = [r \in Requests |->
                       IF r = 1 THEN AfterPages(type, timeline, TimelineCap - CapBack)
                       ELSE IdleReq]

NextLoop ==
    \/ FetchTimeline(1)
    \/ Dedup(1)

SpecLoop == InitLoop /\ [][NextLoop]_vars

\* The step in which a page of request r's timeline loop was served.
PageServed(r) == req[r].pc = "timeline" /\ req'[r].pc \in {"timeline", "dedup"}

InitDated ==
    /\ now = 0
    /\ kv = <<>>
    /\ stored = [t \in DigestTypes |-> None]
    /\ apiKey = TRUE
    /\ aiFeed = <<>>
    /\ \E type \in DigestTypes :
        \/ /\ timeline \in {Old25, Mixed23}
           /\ req = [r \in Requests |->
                       IF r = 1 THEN AfterPages(type, timeline, 0) ELSE IdleReq]
        \/ /\ timeline \in DatedTimelines
           /\ req = [r \in Requests |->
                       IF r = 1 THEN AfterPages(type, timeline, 0) ELSE IdleReq]

SpecDated == InitDated /\ [][NextLoop]_vars

\* Whether the i-th item of the timeline is dated before the cutoff of
\* request q.
DatedOld(q, i) ==
    timeline[i].createdAt # None /\ timeline[i].createdAt[1] < q.twentyFourHoursAgo

\* The length of the run of old items that ends the first n items.
TrailingOld(q, n) ==
    LET recent == {i \in 1..n : ~DatedOld(q, i)}
        last == IF recent = {} THEN 0 ELSE CHOOSE i \in recent : \A j \in recent : j <= i
    IN n - last

\* C19: when the first n items of the timeline have been scanned, in
\* whatever pages, the retained list holds exactly the posts dated at or
\* after the cutoff, in order, and none dated before it, and the counter is
\* the number of old posts since the last recent one: each old post added
\* one, each recent post set it to zero, and no page boundary reset it.
C19_RetainAndCount ==
    \A r \in Requests :
        req[r].pc \in {"timeline", "dedup"} =>
            \E n \in 0..Len(timeline) :
                /\ IsSome(req[r].cursor) => n = req[r].cursor[1]
                /\ req[r].oldPostCount = TrailingOld(req[r], n)
                /\ LET kept == {i \in 1..n : ~DatedOld(req[r], i)} IN
                   /\ Len(req[r].allPosts) = Cardinality(kept)
                   /\ \A k \in 1..Len(req[r].allPosts) :
                         \E i \in kept :
                            /\ Cardinality({j \in kept : j <= i}) = k
                            /\ req[r].allPosts[k].uri = timeline[i].uri
                            /\ req[r].allPosts[k].createdAt = timeline[i].createdAt

\* A post dated exactly at the cutoff was retained, the two old posts after
\* it were counted and not retained, and the loop goes on.
C19_Witness ==
    \E r \in Requests :
        /\ req[r].pc = "timeline"
        /\ req[r].cursor = Some(3)
        /\ timeline[1].createdAt = Some(req[r].twentyFourHoursAgo)
        /\ Len(req[r].allPosts) = 1
        /\ req[r].allPosts[1].uri = timeline[1].uri
        /\ req[r].oldPostCount = 2

\* Timelines in which a post may have an empty createdAt.
UndatedTimelines ==
    {[i \in 1..Len(d) |-> RawItem(i, "x", d[i], None)] :
        d \in SeqsUpTo({OldStamp, None, NewStamp}, MaxDatedLen)}

InitUndated ==
    /\ now = 0
    /\ kv = <<>>
    /\ stored = [t \in DigestTypes |-> None]
    /\ apiKey = TRUE
    /\ aiFeed = <<>>
    /\ timeline \in UndatedTimelines
    /\ \E type \in DigestTypes :
        req = [r \in Requests |->
                  IF r = 1 THEN AfterPages(type, timeline, 0) ELSE IdleReq]

SpecUndated == InitUndated /\ [][NextLoop]_vars

\* The counter when posts without a date take no part: the number of old
\* dated posts, among the first n items, since the last recent dated post.
CountSkippingUndated(q, n) ==
    LET dated == {i \in 1..n : timeline[i].createdAt # None}
        recent == {i \in dated : timeline[i].createdAt[1] >= q.twentyFourHoursAgo}
        last == IF recent = {} THEN 0 ELSE CHOOSE i \in recent : \A j \in recent : j <= i
    IN Cardinality({i \in dated : i > last})

\* C20 as stated: a post whose createdAt is empty neither increments nor
\* resets the counter of consecutive old posts.
C20_UndatedTakesNoPart ==
    \A r \in Requests :
        (req[r].pc = "timeline" /\ IsSome(req[r].cursor)) =>
            req[r].oldPostCount = CountSkippingUndated(req[r], req[r].cursor[1])

\* --------------------------------------- endless upstream: spec, claims

\* The pages of an upstream that never runs out: one recent or one old
\* post, the two together in either order, a run of old posts one short of
\* the threshold, and a full page of recent posts.
EndlessNew == RawItem(0, "x", NewStamp, None)
EndlessOld == RawItem(0 - 1, "x", OldStamp, None)

EndlessPages ==
    {<<EndlessNew>>, <<EndlessOld>>,
     <<EndlessOld, EndlessNew>>, <<EndlessNew, EndlessOld>>,
     Repeat(EndlessOld, MAX_OLD_POSTS - 1),
     Repeat(EndlessNew, PageLimit)}

\* Lines 654-679: one iteration of the timeline loop against such an
\* upstream: every fetch returns a page of EndlessPages and a cursor (the
\* same cursor every time).
FetchTimelineEndless(r) ==
    /\ req[r].pc = "timeline"
    /\ \E page \in EndlessPages :
        LET next == Some(0)
            acc == ProcessPage(page, req[r].twentyFourHoursAgo,
                      [oldPostCount |-> req[r].oldPostCount,
                       allPosts |-> req[r].allPosts])
        IN req' = [req EXCEPT ![r] =
             IF Len(page) = 0
             THEN [req[r] EXCEPT !.pc = "dedup"]
             ELSE [req[r] EXCEPT
                     !.oldPostCount = acc.oldPostCount,
                     !.allPosts = acc.allPosts,
                     !.cursor = next,
                     !.pc = IF StopPaging(acc.oldPostCount, next, Len(acc.allPosts),
                                          MAX_OLD_POSTS, TimelineCap)
                            THEN "dedup" ELSE "timeline"]]
    /\ UNCHANGED <<now, kv, stored, apiKey, timeline, aiFeed>>

\* The loop is under way, a few posts short of the cap, when the upstream
\* turns endless.
InitEndless ==
    /\ now = 0
    /\ kv = <<>>
    /\ stored = [t \in DigestTypes |-> None]
    /\ apiKey = TRUE
    /\ aiFeed = <<>>
    /\ timeline = LongNew
    /\ \E type \in DigestTypes :
        req = [r \in Requests |->
                  IF r = 1 THEN AfterPages(type, timeline, TimelineCap - CapBack)
                  ELSE IdleReq]

\* The loop alone: what follows it has no part in its termination.
NextEndless == FetchTimelineEndless(1)

SpecEndless == InitEndless /\ [][NextEndless]_vars

\* Every fetch returns: an iteration that can be made is made.
SpecEndlessFair ==
    SpecEndless /\ WF_vars(FetchTimelineEndless(1))

\* 20 * retained + counter: at most 20 * 1000 + 19 while the loop goes on.
LoopMeasure(q) == MAX_OLD_POSTS * Len(q.allPosts) + q.oldPostCount

\* C24: against an upstream that returns a cursor and a non-empty page
\* forever, every page the loop processes adds a retained post or adds to
\* the counter of consecutive old posts, and raises 20 * retained + counter;
\* while the loop goes on at most 1000 posts are retained and the counter is
\* below 20, so that measure is at most 20019 and the loop makes at most
\* 20020 fetches; and a loop that is under way comes to its end.
C24_LoopTerminates ==
    /\ [][\A r \in Requests :
            /\ (req[r].pc = "timeline" /\ req'[r] # req[r]) =>
                  /\ \/ Len(req'[r].allPosts) > Len(req[r].allPosts)
                     \/ req'[r].oldPostCount > req[r].oldPostCount
                  /\ LoopMeasure(req'[r]) > LoopMeasure(req[r])
            /\ req[r].pc = "timeline" =>
                  /\ Len(req[r].allPosts) <= TimelineCap
                  /\ req[r].oldPostCount < MAX_OLD_POSTS
                  /\ LoopMeasure(req[r]) <= MAX_OLD_POSTS * TimelineCap + MAX_OLD_POSTS - 1
                  /\ ENABLED FetchTimelineEndless(r)]_vars
    /\ \A r \in Requests : (req[r].pc = "timeline") ~> (req[r].pc # "timeline")

\* The loop has ended on the threshold although the upstream had returned a
\* cursor with every page: the last page was a run of old posts.
C24_Witness ==
    \E r \in Requests :
        /\ req[r].pc = "dedup"
        /\ req[r].cursor = Some(0)
        /\ req[r].oldPostCount >= MAX_OLD_POSTS
        /\ Len(req[r].allPosts) <= TimelineCap

\* C27: with pages of at most 100 items a page adds at most 100 posts to
\* the retained list; the loop goes on only while at most 1000 posts are
\* retained and ends at the first page end with more than 1000; so the
\* retained list never holds more than 1100 posts.
C27_CapOvershoot ==
    [][\A r \in Requests :
        /\ req[r].pc = "timeline" =>
              /\ Len(req[r].allPosts) <= 1000
              /\ Len(req'[r].allPosts) - Len(req[r].allPosts) <= 100
              /\ Len(req'[r].allPosts) > 1000 => req'[r].pc # "timeline"
        /\ Len(req[r].allPosts) <= 1000 + 100
        /\ Len(req'[r].allPosts) <= 1000 + 100]_vars

\* The loop has ended with exactly 1100 posts retained: 1000 were retained
\* when a full page of recent posts came.
C27_Witness ==
    \E r \in Requests :
        /\ req[r].pc = "dedup"
        /\ Len(req[r].allPosts) = TimelineCap + PageLimit
        /\ req[r].oldPostCount = 0

\* ---------------------------------------- external feed loop: spec, claims

\* An external feed of recent posts, a few more than its hard cap, and the
\* number of posts short of the cap at which its loop is taken up.
FeedExtra == 3
FeedBack == 105

LongFeed ==
    [i \in 1..(FeedCap + FeedExtra) |-> RawItem(i, "x", NewStamp, None)]

\* A run of n old posts followed by a recent one.
OldRunThenNew(n) == Repeat(OldItem, n) \o <<TrailingNew>>

\* Runs one short of, and at, the threshold of the feed loop and that of
\* the timeline loop.
OldRunFeeds ==
    {OldRunThenNew(n) : n \in {MAX_OLD_POSTS_FEED - 1, MAX_OLD_POSTS_FEED,
                               MAX_OLD_POSTS - 1, MAX_OLD_POSTS}}

\* The handler's locals in fetchAIFeedPosts, after an empty timeline, when
\* the first n items of feed have been served, the last page with a cursor;
\* with n = 0 the feed's handle is still to be resolved.
AfterFeedPages(feed, n) ==
    LET cutoff == 0 - TicksPerDay
        acc == ProcessPage(SubSeq(feed, 1, n), cutoff,
                           [oldPostCount |-> 0, allPosts |-> <<>>])
    IN [IdleReq EXCEPT !.pc = IF n = 0 THEN "profile" ELSE "feed",
                       !.digestType = "ai", !.refresh = TRUE,
                       !.sessionDid = Some("did"),
                       !.twentyFourHoursAgo = cutoff,
                       !.keywordMatches = Some(0),
                       !.feedCursor = IF n = 0 THEN None ELSE Some(n),
                       !.feedOldPostCount = acc.oldPostCount,
                       !.feedPosts = acc.allPosts]

\* The feed loop is entered on a short feed of dated posts or on a run of
\* old posts, or is under way on the feed longer than the cap.
InitFeed ==
    /\ now = 0
    /\ kv = <<>>
    /\ stored = [t \in DigestTypes |-> None]
    /\ apiKey = TRUE
    /\ timeline = <<>>
    /\ \/ /\ aiFeed \in DatedTimelines
          /\ req = [r \in Requests |->
                      IF r = 1 THEN AfterFeedPages(aiFeed, 0) ELSE IdleReq]
       \/ /\ aiFeed \in OldRunFeeds
          /\ req = [r \in Requests |->
                      IF r = 1 THEN AfterFeedPages(aiFeed, 0) ELSE IdleReq]
       \/ /\ aiFeed = LongFeed
          /\ req = [r \in Requests |->
                      IF r = 1 THEN AfterFeedPages(aiFeed, FeedCap - FeedBack)
                      ELSE IdleReq]

NextFeed ==
    \/ ResolveFeed(1)
    \/ FetchFeed(1)

SpecFeed == InitFeed /\ [][NextFeed]_vars

\* The step in which a page of request r's feed loop was served.
FeedPageServed(r) ==
    /\ req[r].pc = "feed"
    /\ req'[r].pc \in {"feed", "rank"}
    /\ ~req'[r].feedFailed

\* What C21 says of a served page, for a threshold maxOld: the page adds at
\* most 100 posts, and the loop ends if and only if the counter of
\* consecutive old posts is at least maxOld, the upstream returned no
\* cursor, the page was empty, or more than 500 posts of this feed are
\* retained.
FeedPolicy(r, maxOld) ==
    FeedPageServed(r) =>
        LET q == req'[r]
            emptyPage == /\ q.feedCursor = req[r].feedCursor
                         /\ q.feedPosts = req[r].feedPosts
                         /\ q.feedOldPostCount = req[r].feedOldPostCount
            stop == \/ q.feedOldPostCount >= maxOld
                    \/ q.feedCursor = None
                    \/ emptyPage
                    \/ Len(q.feedPosts) > 500
        IN /\ Len(q.feedPosts) - Len(req[r].feedPosts) <= 100
           /\ stop <=> q.pc = "rank"
           /\ ~stop <=> q.pc = "feed"

FivePosts ==
    [i \in 1..5 |-> RawItem(<<"p", i>>, "x", NewStamp, Some(i))]

\* The postIndex values tried against a ranked list of n posts.
IndexChoices(n) == {0 - 1, 0, 1, 3, n, n + 1, 999}

\* Every response with at most MaxNotable entries over those indices.  The
\* reason of an entry is its position in the response, which tells the
\* entries of a response apart.
MapCompletions(n) ==
    {JsonText("none", Some("o"),
              Some([i \in 1..Len(idx) |-> Entry(idx[i], i)]), Some(<<"t">>)) :
        idx \in SeqsUpTo(IndexChoices(n), MaxNotable)}

InitMap ==
    /\ now = 0
    /\ kv = <<>>
    /\ stored = [t \in DigestTypes |-> None]
    /\ apiKey = TRUE
    /\ timeline = FivePosts
    /\ aiFeed = <<>>
    /\ req = [r \in Requests |-> IdleReq]

NextMap ==
    \/ GetStart(1)
    \/ Restore(1)
    \/ FetchTimeline(1)
    \/ Dedup(1)
    \/ ResolveFeed(1)
    \/ FetchFeed(1)
    \/ Rank(1)
    \/ Complete(1, MapCompletions(Len(req[1].postsForDigest)))
    \/ SetCache(1)

SpecMap == InitMap /\ [][NextMap]_vars

\* C3: of the entries of the model's notablePosts, exactly those whose
\* postIndex lies in 1..n are kept, in order; each kept entry carries the
\* ranked post at position postIndex, and no entry of the output has a null
\* post.
C3_IndexMapping ==
    \A r \in Requests :
        req[r].pc = "setcache" =>
          LET ranked == req[r].postsForDigest
              given == req[r].digestData[1].notablePosts[1]
              out == req[r].digest[1].notablePosts
              inRange == {i \in 1..Len(given) : given[i].postIndex \in 1..Len(ranked)}
          IN /\ Len(out) = Cardinality(inRange)
             /\ \A k \in 1..Len(out) :
                   /\ out[k].post # None
                   /\ out[k].reason \in inRange
                   /\ out[k].post[1].uri = ranked[given[out[k].reason].postIndex].uri
                   /\ out[k].post[1] = NotableView(ranked[given[out[k].reason].postIndex])
             /\ \A k \in 1..(Len(out) - 1) : out[k].reason < out[k + 1].reason

\* The response {postIndex: 3}, {postIndex: 999} against five ranked posts:
\* one notable post, the third of the ranking.
C3_Witness ==
    \E r \in Requests :
        /\ req[r].pc = "setcache"
        /\ Len(req[r].postsForDigest) = 5
        /\ Len(req[r].digestData[1].notablePosts[1]) = 2
        /\ req[r].digestData[1].notablePosts[1][1].postIndex = 3
        /\ req[r].digestData[1].notablePosts[1][2].postIndex = 999
        /\ Len(req[r].digest[1].notablePosts) = 1
        /\ req[r].digest[1].notablePosts[1].post[1].uri = req[r].postsForDigest[3].uri

\* C4 as stated: the produced notablePosts never has two entries that refer
\* to the same ranked post.
C4_NoDuplicateNotable ==
    \A r \in Requests :
        req[r].pc = "setcache" =>
          LET out == req[r].digest[1].notablePosts IN
          \A i, j \in 1..Len(out) :
              out[i].post[1].uri = out[j].post[1].uri => i = j

\* C28: the produced notablePosts is never longer than the model's list,
\* and its entries can be matched, in order, with entries of the model's
\* list that come in the same order: each produced entry carries the reason
\* of its match and the uri of the ranked post at the match's postIndex,
\* which lies within the ranked list.
C28_NotableRefersToRanked ==
    \A r \in Requests :
        req[r].pc = "setcache" =>
          LET ranked == req[r].postsForDigest
              given == req[r].digestData[1].notablePosts[1]
              out == req[r].digest[1].notablePosts
          IN /\ Len(out) <= Len(given)
             /\ \E f \in [1..Len(out) -> 1..Len(given)] :
                   /\ \A k, l \in 1..Len(out) : k < l => f[k] < f[l]
                   /\ \A k \in 1..Len(out) :
                         /\ given[f[k]].postIndex \in 1..Len(ranked)
                         /\ out[k].reason = given[f[k]].reason
                         /\ IsSome(out[k].post)
                         /\ out[k].post[1].uri = ranked[given[f[k]].postIndex].uri

\* The response {postIndex: 0}, {postIndex: 5}, {postIndex: 1} against five
\* ranked posts: two notable posts, the fifth of the ranking and then the
\* first.
C28_Witness ==
    \E r \in Requests :
        /\ req[r].pc = "setcache"
        /\ Len(req[r].postsForDigest) = 5
        /\ Len(req[r].digestData[1].notablePosts[1]) = 3
        /\ req[r].digestData[1].notablePosts[1][1].postIndex = 0
        /\ req[r].digestData[1].notablePosts[1][2].postIndex = 5
        /\ req[r].digestData[1].notablePosts[1][3].postIndex = 1
        /\ Len(req[r].digest[1].notablePosts) = 2
        /\ req[r].digest[1].notablePosts[1].post[1].uri = req[r].postsForDigest[5].uri
        /\ req[r].digest[1].notablePosts[2].post[1].uri = req[r].postsForDigest[1].uri

\* ------------------------------------------------ ranking: spec, claims

Item(uri, likes, reposts, replies) ==
    [uri |-> uri, text |-> "ai", createdAt |-> NewStamp,
     likeCount |-> likes, repostCount |-> reposts, replyCount |-> replies,
     embed |-> None]

\* Timelines longer than the ranker keeps, with unique uris: all scores
\* equal; scores rising along the feed; scores mixed from the three counts
\* with many ties; all equal but for a high last post.
Extra == 3
LongLen == TopN + Extra

LongEqual == [i \in 1..LongLen |-> Item(i, Some(1), None, None)]
LongRising == [i \in 1..LongLen |-> Item(i, Some(i), None, None)]
LongMixed ==
    [i \in 1..LongLen |->
        Item(i, Some(i % 2), Some(i % 3), IF i % 5 = 0 THEN Some(1) ELSE None)]
LongLastHigh ==
    [i \in 1..LongLen |->
        Item(i, IF i = LongLen THEN Some(9) ELSE Some(1), None, None)]

\* Short timelines over four kinds of post: scores 1, 2, 1.5 and 2.
MaxRankLen == 3
Kinds == {<<1, 0, 0>>, <<0, 1, 0>>, <<0, 0, 1>>, <<2, 0, 0>>}

ShortScored ==
    {[i \in 1..Len(k) |-> Item(i, Some(k[i][1]), Some(k[i][2]), Some(k[i][3]))] :
        k \in SeqsUpTo(Kinds, MaxRankLen)}

\* The handler's locals when the timeline loop has read the whole of feed
\* page by page and left it at a missing cursor.
AfterTimeline(type, feed) ==
    LET cutoff == 0 - TicksPerDay
        acc == ProcessPage(feed, cutoff, [oldPostCount |-> 0, allPosts |-> <<>>])
    IN [IdleReq EXCEPT !.pc = "dedup", !.digestType = type, !.refresh = TRUE,
                       !.sessionDid = Some("did"),
                       !.twentyFourHoursAgo = cutoff,
                       !.oldPostCount = acc.oldPostCount,
                       !.allPosts = acc.allPosts]

\* A request of either type has collected its timeline; it goes on to rank.
InitRank ==
    /\ now = 0
    /\ kv = <<>>
    /\ stored = [t \in DigestTypes |-> None]
    /\ apiKey = TRUE
    /\ timeline \in ShortScored \cup {LongEqual, LongRising, LongMixed, LongLastHigh}
    /\ aiFeed = <<>>
    /\ \E type \in DigestTypes :
        req = [r \in Requests |->
                  IF r = 1 THEN AfterTimeline(type, timeline) ELSE IdleReq]

NextRank ==
    \/ Dedup(1)
    \/ ResolveFeed(1)
    \/ FetchFeed(1)
    \/ Rank(1)
    \/ Complete(1, OneCompletion)
    \/ SetCache(1)

SpecRank == InitRank /\ [][NextRank]_vars

\* Twice the score of the claim: likes + 2 * reposts + 1.5 * replies.
Score2(p) == 2 * p.likeCount + 4 * p.repostCount + 3 * p.replyCount

\* C8: the ranker returns min(n, 150) of its n input posts; the score is
\* non-increasing along the output; no post left out has a higher score than
\* a post kept; and posts of equal score keep their input order.
C8_Ranking ==
    \A r \in Requests :
        req[r].pc = "complete" =>
          LET input == RankerInput(req[r])
              out == req[r].postsForDigest
              at == [u \in {input[i].uri : i \in 1..Len(input)} |->
                        CHOOSE i \in 1..Len(input) : input[i].uri = u]
              kept == {out[k].uri : k \in 1..Len(out)}
          IN /\ Len(out) = Min(Len(input), TopN)
             /\ \A k \in 1..Len(out) :
                   out[k].uri \in DOMAIN at /\ out[k] = input[at[out[k].uri]]
             /\ Cardinality(kept) = Len(out)
             /\ \A k \in 1..(Len(out) - 1) :
                   /\ Score2(out[k]) >= Score2(out[k + 1])
                   /\ Score2(out[k]) = Score2(out[k + 1])
                        => at[out[k].uri] < at[out[k + 1].uri]
             /\ \A i \in 1..Len(input) :
                   input[i].uri \notin kept => Score2(input[i]) <= Score2(out[Len(out)])

\* More than 150 candidates of mixed scores were ranked: 150 are kept.
C8_Witness ==
    \E r \in Requests :
        /\ req[r].pc = "complete"
        /\ timeline = LongMixed
        /\ Len(req[r].posts) > TopN
        /\ Len(req[r].postsForDigest) = TopN
        /\ Score2(req[r].postsForDigest[1]) > Score2(req[r].postsForDigest[TopN])

\* C13: a request one of whose timeline page fetches failed, on the first
\* page or after posts had been collected, has ended with the generic error
\* response: it builds and returns no digest.
C13_TimelineFailureIsFatal ==
    \A r \in Requests :
        IsSome(req[r].timelineFailed) =>
            /\ req[r].pc = "done"
            /\ req[r].digest = None
            /\ req[r].resp = Some([status |-> 500, body |-> GenericError])

\* A page fetch failed after posts of earlier pages had been retained.
C13_Witness ==
    \E r \in Requests :
        /\ IsSome(req[r].timelineFailed)
        /\ req[r].timelineFailed[1] > 0
        /\ req[r].pc = "done"

\* ------------------------------------------------ date range: spec, claims

\* Timelines of posts that no cutoff drops, over three uris: without a
\* date, dated at the cutoff of a request that arrives at tick 0, at tick 0
\* or at the last tick.
MaxRangeLen == 4

RangeTimelines ==
    {[i \in 1..Len(p) |-> RawItem(p[i][1], "x", p[i][2], Some(i))] :
        p \in SeqsUpTo({"u1", "u2", "u3"} \X {None, CutoffStamp, Some(0), NewStamp},
                       MaxRangeLen)}

\* A request of either type has collected its timeline.
InitRange ==
    /\ now = 0
    /\ kv = <<>>
    /\ stored = [t \in DigestTypes |-> None]
    /\ apiKey = TRUE
    /\ timeline \in RangeTimelines
    /\ aiFeed = <<>>
    /\ \E type \in DigestTypes :
        req = [r \in Requests |->
                  IF r = 1 THEN AfterTimeline(type, timeline) ELSE IdleReq]

SpecRange == InitRange /\ [][NextRank]_vars

\* C23: once the collected posts are deduplicated, oldest and newest are
\* posts of the deduplicated list that carry a timestamp; no such post has a
\* timestamp below that of oldest or above that of newest; both are null
\* exactly when no deduplicated post carries a timestamp; and the digest
\* reports their timestamps, or null, as oldestPostDate and newestPostDate.
C23_DateRange ==
    \A r \in Requests :
        LET q == req[r]
            dated == {i \in 1..Len(q.posts) : q.posts[i].createdAt # None}
        IN q.pc \in {"profile", "feed", "rank", "complete", "setcache"} =>
            /\ q.posts = FirstOccurrences(q.allPosts)
            /\ q.oldestPost = None <=> dated = {}
            /\ q.newestPost = None <=> dated = {}
            /\ dated # {} =>
                  /\ \E i \in dated : q.oldestPost[1] = q.posts[i]
                  /\ \E i \in dated : q.newestPost[1] = q.posts[i]
                  /\ \A i \in dated :
                        /\ q.oldestPost[1].createdAt[1] <= q.posts[i].createdAt[1]
                        /\ q.newestPost[1].createdAt[1] >= q.posts[i].createdAt[1]
            /\ q.pc = "setcache" =>
                  /\ q.digest[1].meta.oldestPostDate =
                        IF dated = {} THEN None ELSE q.oldestPost[1].createdAt
                  /\ q.digest[1].meta.newestPostDate =
                        IF dated = {} THEN None ELSE q.newestPost[1].createdAt

\* A digest was built from a post without a date followed by two dated
\* posts, the later one first, and a repeat of the undated post's uri with
\* the latest date of all: the repeat was dropped and takes no part, and
\* the range runs between the two dated posts.
C23_Witness ==
    \E r \in Requests :
        LET q == req[r] IN
        /\ q.pc = "setcache"
        /\ Len(q.allPosts) = 4 /\ Len(q.posts) = 3
        /\ q.posts[1].createdAt = None
        /\ q.allPosts[4].uri = q.posts[1].uri
        /\ q.allPosts[4].createdAt = NewStamp
        /\ q.posts[2].createdAt = Some(0)
        /\ q.posts[3].createdAt = CutoffStamp
        /\ q.digest[1].meta.oldestPostDate = CutoffStamp
        /\ q.digest[1].meta.newestPostDate = Some(0)

\* ---------------------------------------------- missing key: spec, claims

\* The digest of an empty timeline, as a deployment that had its key wrote
\* it at tick 0.
SeedDigest ==
    BuildDigest(IdleReq,
                [overview |-> Some("o"), notablePosts |-> Some(<<>>),
                 trendingTopics |-> Some(<<"t">>)], 0)

\* The store is empty or holds today's general digest; the key is set or
\* missing.
InitKey ==
    /\ now = 0
    /\ apiKey \in BOOLEAN
    /\ timeline \in FewTimelines
    /\ aiFeed \in FewFeeds
    /\ req = [r \in Requests |-> IdleReq]
    /\ \/ /\ kv = <<>>
          /\ stored = [t \in DigestTypes |-> None]
       \/ /\ kv = setCache(<<>>, "general", SeedDigest, 0, 0, "ok").store
          /\ stored = [t \in DigestTypes |->
                         IF t = "general"
                         THEN Some([digest |-> SeedDigest, called |-> 0]) ELSE None]

SpecKey == InitKey /\ [][Next]_vars

\* C14 as stated: without the API key a finished request was failed as a
\* configuration error, and it made no call to the cache store.
C14_Original ==
    ~apiKey =>
        \A r \in Requests :
            /\ req[r].pc \in {"start", "done"}
            /\ req[r].pc = "done" =>
                 /\ req[r].resp = Some([status |-> 500, body |-> MissingKeyError])
                 /\ req[r].kvGet = "none"

\* C14, amended: without the API key a request never gets past the key
\* check: it restores no session, fetches no timeline and calls no
\* completion.  Unless refresh is set it reads the cache store first; it is
\* answered from the cache on a hit and failed as a configuration error
\* otherwise.
C14_KeyCheckedAfterCacheRead ==
    ~apiKey =>
        \A r \in Requests :
            /\ req[r].pc \in {"start", "done"}
            /\ req[r].pc = "done" =>
                 LET resp == req[r].resp[1] IN
                 \/ /\ resp = [status |-> 500, body |-> MissingKeyError]
                    /\ req[r].kvGet = "none" <=> req[r].refresh
                    /\ req[r].refresh \/ req[r].kvGet = "throw" \/ ~req[r].cachedAtStart
                 \/ /\ resp.status = 200
                    /\ resp.body.cached
                    /\ ~req[r].refresh
                    /\ req[r].kvGet = "ok"
                    /\ req[r].cachedAtStart

\* Without the key, one request was answered from the cache and another,
\* having read the cache in vain, was failed as a configuration error.
C14_Witness ==
    /\ ~apiKey
    /\ \E r, q \in Requests :
        /\ req[r].pc = "done" /\ req[r].resp[1].status = 200
        /\ req[q].pc = "done"
        /\ req[q].resp = Some([status |-> 500, body |-> MissingKeyError])
        /\ req[q].kvGet \in {"ok", "throw"}

\* ------------------------------------------- quoted posts: spec, claims

\* A nested record: its $type, its author handle and text when present, and
\* the record nested in it.
Rec(type, handle, text, inner) ==
    [type |-> type, handle |-> handle, text |-> text, record |-> inner]

RecTags == {"record#viewRecord", "record#viewNotFound"}
Handles == {None, Some("h")}
Texts == {None, Some("ai")}

InnerRecs == {Rec(t, h, x, None) : t \in RecTags, h \in Handles, x \in Texts}

OuterRecs ==
    {Rec(t, h, x, i) : t \in RecTags \cup {"none"}, h \in Handles, x \in Texts,
                       i \in {None} \cup {Some(j) : j \in InnerRecs}}

EmbedTags == {"record#view", "recordWithMedia#view", "images#view"}

Embeds ==
    {None} \cup
    {Some([type |-> t, record |-> r]) :
        t \in EmbedTags, r \in {None} \cup {Some(o) : o \in OuterRecs}}

QuoteItem(embed) ==
    [uri |-> "u1", text |-> "x", createdAt |-> NewStamp,
     likeCount |-> None, repostCount |-> None, replyCount |-> None,
     embed |-> embed]

\* The timeline holds one post with any of the embeds.
InitQuote ==
    /\ now = 0
    /\ kv = <<>>
    /\ stored = [t \in DigestTypes |-> None]
    /\ apiKey = TRUE
    /\ timeline \in {<<QuoteItem(e)>> : e \in Embeds}
    /\ aiFeed = <<>>
    /\ req = [r \in Requests |-> IdleReq]

SpecQuote == InitQuote /\ [][NextCollect]_vars

\* The quote the claim expects of a realized record.
ExpectedQuote(rec) ==
    [handle |-> rec.handle, text |-> IF rec.text = None THEN "" ELSE rec.text[1]]

\* C17: a retained post's quotedPost is the author handle and text of the
\* nested record when the embed is a direct quote-record view with a
\* realized record, of the record one level deeper when the embed is a
\* quote-record-with-media view, and null for every other or absent embed
\* tag and for a nested record that is not tagged as realized.
C17_QuotedPost ==
    \A r \in Requests :
        \A i \in 1..Len(req[r].allPosts) :
            LET embed == timeline[1].embed
                quoted == req[r].allPosts[i].quotedPost
                tag == IF embed = None THEN "absent" ELSE embed[1].type
                direct == tag = "record#view" /\ embed[1].record # None
                media == /\ tag = "recordWithMedia#view"
                         /\ embed[1].record # None
                         /\ embed[1].record[1].record # None
            IN IF direct /\ embed[1].record[1].type = "record#viewRecord"
               THEN quoted = Some(ExpectedQuote(embed[1].record[1]))
               ELSE IF media /\ embed[1].record[1].record[1].type = "record#viewRecord"
               THEN quoted = Some(ExpectedQuote(embed[1].record[1].record[1]))
               ELSE quoted = None

\* A post with a record-with-media embed was retained with the quote of the
\* record one level deeper, while the record at the first level, itself
\* tagged as realized, was passed over.
C17_Witness ==
    \E r \in Requests :
        /\ Len(req[r].allPosts) = 1
        /\ timeline[1].embed # None
        /\ timeline[1].embed[1].type = "recordWithMedia#view"
        /\ timeline[1].embed[1].record # None
        /\ timeline[1].embed[1].record[1].type = "record#viewRecord"
        /\ timeline[1].embed[1].record[1].handle = None
        /\ req[r].allPosts[1].quotedPost = Some([handle |-> Some("h"), text |-> "ai"])

\* ---------------------------------------------- topic filter: spec, claims

\* A raw item that quotes a realized record with the given text.
QuotingItem(uri, text, quoted, likes) ==
    [RawItem(uri, text, NewStamp, Some(likes)) EXCEPT
        !.embed = Some([type |-> "record#view",
                        record |-> Some(Rec("record#viewRecord", Some("h"),
                                            Some(quoted), None))])]

\* Text and quoted text of a timeline post: no keyword; the bounded keyword,
\* in lower and in upper case; the bounded keyword glued to a letter by the
\* concatenation; the keyword in the quote alone, after a space; and the
\* unbounded keyword that only the concatenation spells.
TopicTexts ==
    {<<"x", None>>, <<"ai", None>>, <<"AI", None>>, <<"x", Some("ai")>>,
     <<"x ", Some("ai")>>, <<"mo", Some("del")>>, <<"mo", None>>}

MaxTopicLen == 2

TopicItem(uri, texts, likes) ==
    IF IsSome(texts[2]) THEN QuotingItem(uri, texts[1], texts[2][1], likes)
    ELSE RawItem(uri, texts[1], NewStamp, Some(likes))

TopicTimelines ==
    {[i \in 1..Len(p) |-> TopicItem(p[i][1], p[i][2], i)] :
        p \in SeqsUpTo({"u1", "u2"} \X TopicTexts, MaxTopicLen)}

\* A topic-focused request has collected its timeline; the external feed
\* may hold posts of the timeline.
InitTopic ==
    /\ now = 0
    /\ kv = <<>>
    /\ stored = [t \in DigestTypes |-> None]
    /\ apiKey = TRUE
    /\ timeline \in TopicTimelines
    /\ aiFeed \in ShortFeeds
    /\ req = [r \in Requests |->
                IF r = 1 THEN AfterTimeline("ai", timeline) ELSE IdleReq]

SpecTopic == InitTopic /\ [][NextRank]_vars

\* The text the claim has the pattern tested on.
TextWithQuote(p) ==
    IF p.quotedPost = None THEN p.text ELSE p.text \o p.quotedPost[1].text

\* C22: for a topic-focused digest the ranked candidates are exactly the
\* first occurrences, by uri, of the keyword-matched timeline posts followed
\* by the external-feed posts, so that a post in both keeps its timeline
\* copy; keywordMatches is the number of deduplicated timeline posts whose
\* text concatenated with the quoted text matches the pattern, and
\* feedPostCount is the number of posts retained from the feed before the
\* merge.
C22_TopicCandidates ==
    \A r \in Requests :
        LET q == req[r]
            matched == SelectSeq(q.posts, LAMBDA p : AI_KEYWORDS_REGEX(TextWithQuote(p)))
            merged == FirstOccurrences(matched \o q.feedPosts)
        IN (q.digestType = "ai" /\ q.pc \in {"complete", "setcache"}) =>
            /\ Len(q.postsForDigest) = Len(merged)
            /\ Range(q.postsForDigest) = Range(merged)
            /\ \A p \in Range(q.postsForDigest) :
                  (\E m \in Range(matched) : m.uri = p.uri) => p \in Range(matched)
            /\ q.keywordMatches = Some(Len(matched))
            /\ q.feedPostCount = Some(Len(q.feedPosts))
            /\ q.pc = "setcache" =>
                  /\ q.digest[1].meta.keywordMatches = Len(matched)
                  /\ q.digest[1].meta.feedPostCount = Len(q.feedPosts)
                  /\ q.digest[1].meta.postsAnalyzed = Len(merged)

\* A digest was built from a timeline of two posts, one matched only by the
\* concatenation of text and quote and one not matched although its quote
\* alone spells a keyword, and from a feed of two posts, one of them the
\* matched timeline post: two candidates, and the shared post is the
\* timeline's copy.
C22_Witness ==
    \E r \in Requests :
        LET q == req[r] IN
        /\ q.pc = "setcache" /\ q.digestType = "ai"
        /\ Len(q.posts) = 2
        /\ q.posts[1].uri = "u1" /\ q.posts[1].text = "mo"
        /\ q.posts[2].uri = "u2" /\ q.posts[2].text = "x"
        /\ q.posts[2].quotedPost = Some([handle |-> Some("h"), text |-> "ai"])
        /\ q.digest[1].meta.keywordMatches = 1
        /\ q.digest[1].meta.feedPostCount = 2
        /\ q.digest[1].meta.postsAnalyzed = 2
        /\ q.posts[1] \in Range(q.postsForDigest)
        /\ \E f \in Range(q.feedPosts) : f.uri = "u1" /\ f \notin Range(q.postsForDigest)

\* ---------------------------------------------- digest meta: spec, claims

MaxMetaLen == 2

\* Short timelines of posts that match the pattern or not, dated at tick 0
\* or 1, and short feeds of posts dated at the cutoff or at the last tick;
\* the uri u1 may be in both.
MetaTimelines ==
    {[i \in 1..Len(p) |-> RawItem(p[i][1], p[i][2], p[i][3], Some(i))] :
        p \in SeqsUpTo({"u1", "u2"} \X {"ai", "x"} \X {Some(0), Some(1)}, MaxMetaLen)}

MetaFeeds(uris) ==
    {[i \in 1..Len(p) |-> RawItem(p[i][1], "x", p[i][2], Some(MaxMetaLen + i))] :
        p \in SeqsUpTo(uris \X {CutoffStamp, NewStamp}, MaxMetaLen)}

\* A request of either type has collected a short timeline, or the timeline
\* of more posts than the ranker keeps; the feed may bring posts dated
\* outside the range of the timeline.
InitMeta ==
    /\ now = 0
    /\ kv = <<>>
    /\ stored = [t \in DigestTypes |-> None]
    /\ apiKey = TRUE
    /\ \/ timeline \in MetaTimelines /\ aiFeed \in MetaFeeds({"u1", "u3"})
       \/ timeline = LongMixed /\ aiFeed \in MetaFeeds({1, LongLen + 1})
    /\ \E type \in DigestTypes :
        req = [r \in Requests |->
                  IF r = 1 THEN AfterTimeline(type, timeline) ELSE IdleReq]

SpecMeta == InitMeta /\ [][NextRank]_vars

UrisOf(s) == {s[i].uri : i \in 1..Len(s)}

\* C29: in a generated digest postsAnalyzed is min(150, number of distinct
\* uris among the candidates), the candidates being the deduplicated
\* timeline for a general digest and the keyword matches of the timeline
\* with the feed posts for a topic-focused one; postsAnalyzed is at most
\* totalPosts for a general digest and at most keywordMatches +
\* feedPostCount for a topic-focused one; and totalPosts, oldestPostDate and
\* newestPostDate are the count and the date range of the deduplicated
\* timeline in either case.
C29_MetaCounts ==
    \A r \in Requests :
        req[r].pc = "setcache" =>
          LET q == req[r]
              meta == q.digest[1].meta
              matched == SelectSeq(q.posts, LAMBDA p : AI_KEYWORDS_REGEX(TextWithQuote(p)))
              candidates == IF q.digestType = "ai"
                            THEN UrisOf(matched) \cup UrisOf(q.feedPosts)
                            ELSE UrisOf(q.posts)
              dates == {q.posts[i].createdAt[1] :
                          i \in {j \in 1..Len(q.posts) : q.posts[j].createdAt # None}}
          IN /\ meta.postsAnalyzed = Min(150, Cardinality(candidates))
             /\ meta.postsAnalyzed = Len(q.postsForDigest)
             /\ meta.digestType = q.digestType
             /\ IF q.digestType = "ai"
                THEN meta.postsAnalyzed <= meta.keywordMatches + meta.feedPostCount
                ELSE /\ meta.postsAnalyzed <= meta.totalPosts
                     /\ "keywordMatches" \notin DOMAIN meta
                     /\ "feedPostCount" \notin DOMAIN meta
             /\ meta.totalPosts = Cardinality(UrisOf(q.allPosts))
             /\ meta.totalPosts = Len(q.posts)
             /\ IF dates = {}
                THEN meta.oldestPostDate = None /\ meta.newestPostDate = None
                ELSE /\ meta.oldestPostDate # None /\ meta.newestPostDate # None
                     /\ meta.oldestPostDate[1] \in dates
                     /\ meta.newestPostDate[1] \in dates
                     /\ \A d \in dates : /\ meta.oldestPostDate[1] <= d
                                         /\ meta.newestPostDate[1] >= d

\* A topic-focused digest of a timeline of 153 matching posts and a feed of
\* two posts, one of them a post of the timeline and both dated before every
\* post of the timeline: 154 candidates, 150 analyzed, 153 total, and a date
\* range that does not reach back to the feed posts.
C29_Witness ==
    \E r \in Requests :
        /\ req[r].pc = "setcache" /\ req[r].digestType = "ai"
        /\ timeline = LongMixed
        /\ req[r].digest[1].meta.totalPosts = LongLen
        /\ req[r].digest[1].meta.keywordMatches = LongLen
        /\ req[r].digest[1].meta.feedPostCount = 2
        /\ req[r].digest[1].meta.postsAnalyzed = TopN
        /\ req[r].digest[1].meta.oldestPostDate = NewStamp
        /\ UrisOf(req[r].feedPosts) = {1, LongLen + 1}
        /\ \A i \in 1..2 : req[r].feedPosts[i].createdAt = CutoffStamp

\* -------------------------------------------------- completion properties

\* The parsed completion has the shape {overview, notablePosts,
\* trendingTopics}.
Conforms(d) ==
    /\ IsSome(d.overview)
    /\ IsSome(d.notablePosts)
    /\ IsSome(d.trendingTopics)

\* C12 as stated: a completion that does not conform to the shape is a hard
\* failure, so a request that built a digest and goes on to cache and
\* return it parsed a conforming completion.
C12_MalformationIsHardFailure ==
    \A r \in Requests :
        req[r].pc = "setcache" => Conforms(req[r].digestData[1])

\* ------------------------------------------------------- cache properties

IsResponse(q, status) == q.pc = "done" /\ IsSome(q.resp) /\ q.resp[1].status = status

\* The digest part of a response body: the body without its annotations.
BodyDigest(body) == [f \in DOMAIN body \ {"cached", "digestType"} |-> body[f]]

\* The step in which request r arrives and passes lines 596-628.
Arrives(r) == req[r].pc = "start" /\ req'[r].pc # "start"

\* The step in which the write of request r's setCache is settled.
Writes(r) == req[r].pc = "setcache" /\ req'[r].pc # "setcache"

\* C1: when the store accepted setCache(type, record), a request for that
\* type with refresh=false whose read succeeds on the same UTC date as the
\* setCache call returns status 200 with the stored record (as JSON keeps
\* it), annotated cached: true and with its digestType.
C1_CacheRoundTrip ==
    [][\A r \in Requests :
        LET q == req'[r]
            s == stored[q.digestType]
        IN (/\ Arrives(r)
            /\ ~q.refresh
            /\ q.kvGet = "ok"
            /\ IsSome(s)
            /\ DateOf(s[1].called) = DateOf(now))
           => /\ IsResponse(q, 200)
              /\ q.resp[1].body.cached = TRUE
              /\ q.resp[1].body.digestType = q.digestType
              /\ BodyDigest(q.resp[1].body) = JsonValue(s[1].digest)]_vars

\* A request was answered from the cache with a digest whose trendingTopics
\* the model had left out.
C1_Witness ==
    \E r \in Requests :
        /\ IsResponse(req[r], 200)
        /\ req[r].resp[1].body.cached = TRUE
        /\ IsSome(stored[req[r].digestType])
        /\ stored[req[r].digestType][1].digest.trendingTopics = None
        /\ BodyDigest(req[r].resp[1].body) = JsonValue(stored[req[r].digestType][1].digest)

\* C2: a request with refresh=true never reads the cache, is never answered
\* with cached: true, returns 200 only from the step that settles its cache
\* write, and when the store accepts that write the store holds the new
\* record under the key of the request's digest type.
C2_RefreshBypassesRead ==
    [][\A r \in Requests :
        LET q == req'[r] IN
        q.refresh =>
          /\ q.kvGet = "none"
          /\ (IsResponse(q, 200) /\ req[r].pc # "done") =>
                /\ Writes(r)
                /\ q.resp[1].body.cached = FALSE
          /\ (Writes(r) /\ q.kvSet = "ok") =>
                KvGet(kv', getCacheKey(q.digestType, req[r].digest[1].meta.generatedAt), now)
                    = Some(CacheEntry(req[r].digest[1],
                                      req[r].digest[1].meta.generatedAt))]_vars

\* A refresh request that arrived while the store held a record for that
\* day's key regenerated and wrote its own record.
C2_Witness ==
    \E r \in Requests :
        /\ req[r].refresh
        /\ req[r].cachedAtStart
        /\ IsResponse(req[r], 200)
        /\ req[r].kvSet = "ok"
        /\ req[r].resp[1].body.cached = FALSE

\* C9: a request answered from the cache gets a record whose setCache call
\* was made on the UTC date of the read: a record cached on date D is not
\* returned on date D+1.
C9_KeyRollover ==
    [][\A r \in Requests :
        (Arrives(r) /\ IsResponse(req'[r], 200))
          => DateOf(req'[r].resp[1].body.meta.generatedAt) = DateOf(now)]_vars

\* A request read the cache on the day after a record of its type was
\* written, while that record had not yet expired.
C9_Witness ==
    \E r \in Requests :
        /\ req[r].pc # "start"
        /\ ~req[r].refresh
        /\ req[r].kvGet = "ok"
        /\ req[r].readAt = Some(now)
        /\ \E k \in DOMAIN kv :
              /\ k = getCacheKey(req[r].digestType, now - TicksPerDay)
              /\ kv[k].expiresAt > now
              /\ kv[k].expiresAt < now + CacheTtl

\* C10: a failing cache read is a cache miss (the request goes on to the
\* key check, the session check and the generation exactly as on a miss),
\* and a failing cache write leaves the store as it was and the request
\* returning its fresh digest with status 200.
C10_StoreFailuresSwallowed ==
    [][\A r \in Requests :
        LET q == req'[r] IN
        /\ (Arrives(r) /\ q.kvGet = "throw") =>
              IF ~apiKey
              THEN IsResponse(q, 500) /\ q.resp[1].body.error = "Missing Anthropic API key"
              ELSE IF ~IsSome(q.sessionDid)
              THEN IsResponse(q, 401)
              ELSE q.pc = "restore"
        /\ (Writes(r) /\ q.kvSet = "throw") =>
              /\ q.resp = Some([status |-> 200, body |-> FreshBody(req[r].digest[1])])
              /\ kv' = kv]_vars

\* One request went on to restore its session after a failed cache read,
\* another returned 200 after a failed cache write.
C10_Witness ==
    \E r, w \in Requests :
        /\ req[r].kvGet = "throw" /\ req[r].pc = "restore"
        /\ req[w].kvSet = "throw" /\ IsResponse(req[w], 200)

\* ------------------------------------------------ cache hit: spec, claims

\* One request runs through the handler while time passes.
NextServe ==
    \/ NextCollect
    \/ Tick

\* The store is empty or holds today's general digest, the key is set or
\* missing, and one request arrives, with or without a session cookie.
SpecServe == InitKey /\ [][NextServe]_vars

\* C25: a request without refresh whose cache read returns the record held
\* under today's key of its type is answered in the step in which it
\* arrives, with status 200 and that record marked cached: true, whether
\* the API key is set and whether it carries a session cookie; it passes
\* through no session restore, timeline fetch, completion call or cache
\* write, and leaves the store as it was.
C25_HitServedBeforeChecks ==
    [][\A r \in Requests :
        LET q == req'[r]
            held == KvGet(kv, getCacheKey(q.digestType, now), now)
        IN /\ (Arrives(r) /\ ~q.refresh /\ q.kvGet = "ok" /\ IsSome(held)) =>
                /\ q.pc = "done"
                /\ q.resp = Some([status |-> 200,
                                  body |-> CachedBody(held[1], q.digestType)])
                /\ q.resp[1].body.cached = TRUE
                /\ BodyDigest(q.resp[1].body) = held[1].digest
                /\ kv' = kv
                /\ stored' = stored
           /\ req[r].pc = "done" => req'[r] = req[r]]_vars

\* A request without a session cookie was answered from the cache while the
\* API key was missing.
C25_Witness ==
    \E r \in Requests :
        /\ ~apiKey
        /\ req[r].pc = "done"
        /\ req[r].sessionDid = None
        /\ ~req[r].refresh
        /\ req[r].resp[1].status = 200
        /\ req[r].resp[1].body.cached = TRUE

\* C26: a step that changes the store is the passing of time or the
\* settling of a request's setCache, which comes after the completion was
\* parsed and its notablePosts mapped, in a request that returns status 200
\* with cached: false in that step; a step in which a request ends with
\* status 401 or 500 leaves the store as it was, and such a request had made
\* no write.
C26_ErrorsLeaveStore ==
    [][\A r \in Requests :
        LET q == req'[r] IN
        /\ (kv' # kv /\ req'[r] # req[r]) =>
              /\ req[r].pc = "setcache"
              /\ IsSome(req[r].digestData)
              /\ IsSome(req[r].digestData[1].notablePosts)
              /\ IsSome(req[r].digest)
              /\ q.kvSet = "ok"
              /\ IsResponse(q, 200)
              /\ q.resp[1].body.cached = FALSE
        /\ (req[r].pc # "done" /\ (IsResponse(q, 401) \/ IsResponse(q, 500))) =>
              /\ kv' = kv
              /\ q.kvSet = "none"
              /\ req[r].kvSet = "none"
        /\ (kv' # kv /\ now' = now) => \E w \in Requests : Writes(w)]_vars

\* A request with refresh=true got past the session check and ended with
\* status 500 while the store held the day's record: the record is still
\* there.
C26_Witness ==
    \E r \in Requests :
        /\ IsResponse(req[r], 500)
        /\ req[r].refresh
        /\ req[r].resp[1].body = GenericError
        /\ kv = setCache(<<>>, "general", SeedDigest, 0, 0, "ok").store

\* ---------------------------------------------------- session properties

\* What the request answers when it has no session to work with.
NotAuthenticated ==
    [status |-> 401, body |-> [error |-> "Not authenticated", needsAuth |-> TRUE]]

Expired ==
    [status |-> 401, body |-> [error |-> "Session expired", needsAuth |-> TRUE]]

\* C30 as stated: a request that is not answered from the cache and carries
\* no session cookie is answered 401 with needsAuth: true.
C30_Original ==
    [][\A r \in Requests :
        (Arrives(r) /\ ~IsResponse(req'[r], 200) /\ req'[r].sessionDid = None)
            => /\ IsResponse(req'[r], 401)
               /\ req'[r].resp[1].body.needsAuth = TRUE]_vars

\* C30, amended: a request that is not answered from the cache and finds
\* the API key set is answered 401 with needsAuth: true when it carries no
\* session cookie, and when the restore of its session returns no session;
\* in the second case the session cookie is deleted with the response, and
\* in no other case.  Without the API key the request is failed as a
\* configuration error before the cookie is looked at, and a restore that
\* throws ends in the generic failure.  A request answered 401 came
\* straight from the session check or the restore: it fetched no timeline,
\* called no completion and left the store as it was.
C30_NoSessionIs401 ==
    [][\A r \in Requests :
        LET q == req'[r] IN
        /\ (Arrives(r) /\ ~IsResponse(q, 200) /\ q.sessionDid = None) =>
              /\ q.pc = "done"
              /\ q.resp = IF apiKey THEN Some(NotAuthenticated)
                          ELSE Some([status |-> 500, body |-> MissingKeyError])
              /\ ~q.cookieDeleted
        /\ (Arrives(r) /\ q.pc = "restore") => apiKey /\ q.sessionDid # None
        /\ (req[r].pc = "restore" /\ q # req[r]) =>
              \/ q.pc = "timeline" /\ q.resp = None /\ ~q.cookieDeleted
              \/ q.pc = "done" /\ q.resp = Some(Expired) /\ q.cookieDeleted
              \/ /\ q.pc = "done" /\ ~q.cookieDeleted
                 /\ q.resp = Some([status |-> 500, body |-> GenericError])
        /\ q.cookieDeleted => q.resp = Some(Expired)
        /\ (IsResponse(q, 401) /\ req[r].pc # "done") =>
              /\ req[r].pc \in {"start", "restore"}
              /\ q.resp[1].body.needsAuth = TRUE
              /\ req[r].allPosts = <<>> /\ req[r].digest = None
              /\ q.kvSet = "none"
              /\ kv' = kv
              /\ stored' = stored
        /\ req[r].pc = "done" => q = req[r]]_vars

\* A request with refresh=true arrived with a session cookie while the
\* store held the day's record; its session could not be restored: it was
\* answered 401, the cookie was deleted and the record is still there.
C30_Witness ==
    \E r \in Requests :
        /\ apiKey
        /\ req[r].pc = "done"
        /\ req[r].resp = Some(Expired)
        /\ req[r].cookieDeleted
        /\ req[r].refresh
        /\ req[r].cachedAtStart
        /\ kv = setCache(<<>>, "general", SeedDigest, 0, 0, "ok").store

\* ------------------------------------------------ supersession properties

\* The step in which request r's write replaces a record that the store
\* holds, unexpired, under the key of the write.
Overwrites(r) ==
    /\ Writes(r)
    /\ req'[r].kvSet = "ok"
    /\ IsSome(KvGet(kv, getCacheKey(req[r].digestType,
                                    req[r].digest[1].meta.generatedAt), now))

\* C15 as stated: a record held under a (digestType, date) key is
\* overwritten only by a request with refresh=true.
C15_Original ==
    [][\A r \in Requests : Overwrites(r) => req[r].refresh]_vars

\* C15, amended: a record is overwritten only by a request with
\* refresh=true, by a request whose cache read failed, or by a request
\* that read the cache when the store held no record for its key; a
\* request whose read found the record never writes.
C15_SupersededOnlyAfterMiss ==
    [][\A r \in Requests :
        /\ Overwrites(r) =>
              \/ req[r].refresh
              \/ req[r].kvGet = "throw"
              \/ ~req[r].cachedAtStart
        /\ (Writes(r) /\ ~req[r].refresh /\ req[r].kvGet = "ok")
              => ~req[r].cachedAtStart]_vars

\* A request without refresh whose cache read failed has replaced the
\* record that the store held when it arrived.
C15_Witness ==
    \E r \in Requests :
        /\ IsResponse(req[r], 200)
        /\ ~req[r].refresh
        /\ req[r].cachedAtStart
        /\ req[r].kvSet = "ok"
        /\ req[r].resp[1].body.cached = FALSE

\* --------------------------------------------------- concurrent requests

\* The key of the write that request q, at its setCache call, has issued.
WriteKey(q) == getCacheKey(q.digestType, q.digest[1].meta.generatedAt)

\* C16: requests do not block each other (a request that has not returned
\* can take its next step whatever the others are doing); a write that the
\* store accepts leaves under its key exactly the writer's record, whatever
\* was there, and leaves every other key as it was, so the store ends with
\* the record of the write that landed last; a request answered from the
\* cache gets a record of its own digest type.
C16_LastWriteWins ==
    [][\A r \in Requests :
        /\ req[r].pc = "timeline" => ENABLED FetchTimeline(r)
        /\ req[r].pc = "complete" => ENABLED Complete(r, FewCompletions)
        /\ req[r].pc = "setcache" => ENABLED SetCache(r)
        /\ (Writes(r) /\ req'[r].kvSet = "ok") =>
              LET key == WriteKey(req[r]) IN
              /\ key[2] = req[r].digestType
              /\ DOMAIN kv' = DOMAIN kv \cup {key}
              /\ kv'[key] = [value |-> CacheEntry(req[r].digest[1],
                                                  req[r].digest[1].meta.generatedAt),
                             expiresAt |-> now + CacheTtl]
              /\ \A k \in DOMAIN kv : k # key => kv'[k] = kv[k]
        /\ (Arrives(r) /\ IsResponse(req'[r], 200)) =>
              /\ req'[r].resp[1].body.meta.digestType = req'[r].digestType
              /\ kv' = kv]_vars

\* Two requests regenerated the same key with different records and both
\* writes were accepted: the store holds one of the two records whole.
C16_Witness ==
    \E r, q \in Requests :
        /\ r # q
        /\ IsResponse(req[r], 200) /\ req[r].kvSet = "ok"
        /\ IsResponse(req[q], 200) /\ req[q].kvSet = "ok"
        /\ req[r].digestType = req[q].digestType
        /\ req[r].resp[1].body # req[q].resp[1].body
        /\ LET key == getCacheKey(req[q].digestType,
                                  req[q].resp[1].body.meta.generatedAt) IN
           /\ key = getCacheKey(req[r].digestType,
                                req[r].resp[1].body.meta.generatedAt)
           /\ key \in DOMAIN kv
           /\ kv[key].value.digest = BodyDigest(req[q].resp[1].body)

====
